---- MODULE Spec2Model ----
(***************************************************************************)
(* CodLess operator console: the calibration state machine                 *)
(* (CalibrationManager), the configuration dialog slots that consume its   *)
(* events, and the command dispatcher of the main window                   *)
(* (MainWindow::executeCommand) with its recording buffer, undo and redo   *)
(* stacks and the playback of a loaded run.                                *)
(*                                                                         *)
(* Time is counted in units of 100 ms, the greatest common divisor of      *)
(* every timer interval of calibration_manager.cpp.  Real numbers are      *)
(* fixed-point integers scaled by 1000 ("milli").  Signal emissions are    *)
(* counted; a slot connected to a signal is modelled by the assignments it *)
(* makes (the modal message dialogs it opens are not modelled).            *)
(***************************************************************************)
EXTENDS Integers, Sequences, FiniteSets, TLC

\* ---------------------------------------------------------------- bounds
MaxStarts == 2          \* startCalibration() requests accepted per dialog
MaxLinkChanges == 2     \* connection changes of the hardware link per dialog
MaxDispatch == 2        \* commands dispatched by the main window
MaxResults == 2         \* length of a drawn results list (FinalizeSpec)
MaxElapsed == 1         \* last reading of the recording clock, in ms
MaxRecordings == 2      \* recording sessions started
MaxPlaybacks == 2       \* playbackRun() calls that load a run
MaxLog == 2             \* entries of a drawn run file
MaxStamp == 1           \* largest timestamp of a drawn run file, in ms
MaxRecorded == 21       \* commands dispatched in HistorySpec (above MAX_HISTORY)
MaxSimTicks == 6        \* timeouts of the simulator's timer (PhysicsSpec, MotorSpec)
MaxSimCommands == 2     \* commands given to the simulator (PhysicsSpec, MotorSpec)
MaxArmTicks == 100      \* timeouts of the simulator's timer in ArmSpec
MaxArmCommands == 1     \* arm commands given in ArmSpec
MaxKeyEvents == 3        \* key presses and releases (KeySpec, KeySpecCpp)
MaxBleEvents == 8       \* calls and signals handled by the BLE controller

\* ------------------------------------------------------ program constants
Scale == 10 * 100         \* fixed-point scale of the model's real numbers

StepNotStarted == 0
StepMotorResponseTime == 1
StepStraightTracking == 2
StepTurnAccuracy == 3
StepGyroscopeCalibration == 4
StepMotorBalance == 5
StepFinalization == 6
StepCompleted == 7

maxRetries == 3
timeoutDuration == 100
DevTimeout == 20
StartDelay == 1
InterStepDelay == 5
RetryDelay == 10
MOTOR_RESPONSE_TEST_SPEED == 200000
QUALITY_THRESHOLD == 75000
SuccessConfidence == 900

NoTimer == 0 - 1
MAX_HISTORY == 20

\* Wall-clock readings of analyzeMotorResponse (ms, milli-scaled): the
\* analysis runs 500 ms after the probe, plus event-loop latency.
ResponseTimes == {500000, 520000}

\* ------------------------------------------------------------ RobotConfig
DefaultConfig ==
    [ axleTrack |-> 112000,
      wheelDiameter |-> 56000,
      leftMotorPort |-> "A",
      rightMotorPort |-> "B",
      arm1MotorPort |-> "C",
      arm2MotorPort |-> "D",
      straightSpeed |-> 500000,
      straightAcceleration |-> 250000,
      turnRate |-> 200000,
      turnAcceleration |-> 300000,
      isCalibrated |-> FALSE,
      calibrationDate |-> "",
      leftMotorDelay |-> 0,
      rightMotorDelay |-> 0,
      arm1MotorDelay |-> 0,
      arm2MotorDelay |-> 0,
      gyroscopeDrift |-> 0,
      gyroscopeDelay |-> 0,
      leftMotorSpeedFactor |-> 1000,
      rightMotorSpeedFactor |-> 1000,
      turnAccuracyFactor |-> 1000,
      straightDriftCorrection |-> 0,
      motorResponseTime |-> 0,
      calibrationQuality |-> 0 ]

\* a clear that leaves the measured factors in place
clearCalibration_KeepsFactors(c) ==
    [c EXCEPT !.isCalibrated = FALSE,
              !.calibrationDate = "",
              !.leftMotorDelay = 0,
              !.rightMotorDelay = 0,
              !.arm1MotorDelay = 0,
              !.arm2MotorDelay = 0,
              !.gyroscopeDrift = 0,
              !.gyroscopeDelay = 0,
              !.motorResponseTime = 0,
              !.calibrationQuality = 0]

\* RobotConfig::clearCalibration
clearCalibration(c) ==
    [c EXCEPT !.isCalibrated = FALSE,
              !.calibrationDate = "",
              !.leftMotorDelay = 0,
              !.rightMotorDelay = 0,
              !.arm1MotorDelay = 0,
              !.arm2MotorDelay = 0,
              !.gyroscopeDrift = 0,
              !.gyroscopeDelay = 0,
              !.leftMotorSpeedFactor = Scale,
              !.rightMotorSpeedFactor = Scale,
              !.turnAccuracyFactor = Scale,
              !.straightDriftCorrection = 0,
              !.motorResponseTime = 0,
              !.calibrationQuality = 0]

hasValidCalibration(c) ==
    c.isCalibrated /\ c.calibrationDate # "" /\ c.calibrationQuality > 0

\* ----------------------------------------------------------------- state
VARIABLES
    configured,          \* openConfigDialog has wired the manager
    isDeveloperMode,
    linkConnected,       \* bleController->isConnected()
    calibrationRunning,
    currentStep,
    currentRetry,
    calibrationResults,
    calibratedConfig,
    stepTimer,           \* remaining time of stepTimer, NoTimer if inactive
    timeoutTimer,        \* remaining time of timeoutTimer (the watchdog)
    singleShots,         \* pending QTimer::singleShot callbacks
    currentConfig,       \* ConfigDialog::currentConfig
    emitted,             \* emissions per signal since the last accepted start
    lastFailure,         \* reason of the last calibrationFailed
    sentCount,           \* commands passed to bleController->sendCommand,
                         \* counted like emitted
    lastSent,            \* the last such command
    simSentCount,        \* commands passed to robotSimulator->updateCommand
    probed,              \* steps whose calibrate routine ran in this run
    lastOp,              \* the handler that ran last
    run,                 \* bookkeeping of the current run, see StartCalibration
    starts, linkChanges

calVars == << configured, isDeveloperMode, linkConnected, calibrationRunning,
              currentStep, currentRetry, calibrationResults, calibratedConfig,
              stepTimer, timeoutTimer, singleShots, currentConfig, emitted,
              lastFailure, sentCount, lastSent, simSentCount, probed, lastOp,
              run, starts, linkChanges >>

\* MainWindow (command dispatch and recording)
VARIABLES
    robotConfig,         \* MainWindow::robotConfig
    mwDeveloperMode,     \* MainWindow::isDeveloperMode
    isConnected,         \* MainWindow::isConnected
    isRecording,
    currentRecording,
    undoHistory,
    redoHistory,
    recordingElapsed,    \* recordingTimer->elapsed(), in ms
    lastDispatch,        \* the last executeCommand: argument, command sent, targets
    dispatched,          \* executeCommand calls made for operator input
    recordings           \* recording sessions started

\* MainWindow (playback of a loaded run)
VARIABLES
    isPlayingBack,
    playbackCommands,
    playbackIndex,
    playbackTimer,       \* playbackTimer->isActive()
    playbackElapsed,     \* now - playbackStartTime, in ms
    played,              \* the executeCommand calls of this playback, per tick
    playbackReports,     \* "Playback completed" / index-error messages logged
    playbacks,           \* playbackRun() calls that started a playback
    lastStatus           \* the latest logStatus message of the playback code

VARIABLES
    simulator,           \* the RobotSimulator widget: size, pose, motor state
    simTicks             \* timeouts of the simulator's 20 ms timer so far

simVars == << simulator, simTicks >>

VARIABLES
    pressedKeys          \* MainWindow::pressedKeys, the keys held down

\* BLEController (the hardware link)
VARIABLES
    connectionState,     \* Disconnected, Connecting or Connected
    scanning,
    targetDevice,        \* targetDevice.isValid()
    controller,          \* the QLowEnergyController: none, or its progress
    service,             \* the QLowEnergyService: none, or its progress
    lastBleOp,           \* the handler that ran last, with its outcome
    bleEvents            \* calls and signals handled so far

bleVars == << connectionState, scanning, targetDevice, controller, service,
              lastBleOp, bleEvents >>

pbVars == << isPlayingBack, playbackCommands, playbackIndex, playbackTimer,
             playbackElapsed, played, playbackReports, playbacks, lastStatus >>

mwVars == << robotConfig, mwDeveloperMode, isConnected, isRecording,
             currentRecording, undoHistory, redoHistory, recordingElapsed,
             lastDispatch, dispatched, recordings, pbVars, simVars,
             pressedKeys, bleVars >>

vars == << calVars, mwVars >>

Signals == {"calibrationStarted", "calibrationStepChanged",
            "calibrationStepCompleted", "calibrationCompleted",
            "calibrationFailed"}

ZeroEmitted == [sig \in Signals |-> 0]

NoCommand == [type |-> "none", speed |-> 0, turn_rate |-> 0]
DriveCommand(s, t) == [type |-> "drive", speed |-> s, turn_rate |-> t]
CalibrateCommand == [type |-> "calibrate", speed |-> 0, turn_rate |-> 0]

\* The manager's state as one record, so that the call chain
\* processCalibrationStep -> calibrateX -> completeCurrentStep -> nextStep
\* composes as the code does.
Mgr ==
    [ calibrationRunning |-> calibrationRunning,
      currentStep |-> currentStep,
      currentRetry |-> currentRetry,
      calibrationResults |-> calibrationResults,
      calibratedConfig |-> calibratedConfig,
      stepTimer |-> stepTimer,
      timeoutTimer |-> timeoutTimer,
      singleShots |-> singleShots,
      currentConfig |-> currentConfig,
      emitted |-> emitted,
      lastFailure |-> lastFailure,
      sentCount |-> sentCount,
      lastSent |-> lastSent,
      simSentCount |-> simSentCount,
      probed |-> probed ]

SetMgr(m) ==
    /\ calibrationRunning' = m.calibrationRunning
    /\ currentStep' = m.currentStep
    /\ currentRetry' = m.currentRetry
    /\ calibrationResults' = m.calibrationResults
    /\ calibratedConfig' = m.calibratedConfig
    /\ stepTimer' = m.stepTimer
    /\ timeoutTimer' = m.timeoutTimer
    /\ singleShots' = m.singleShots
    /\ currentConfig' = m.currentConfig
    /\ emitted' = m.emitted
    /\ lastFailure' = m.lastFailure
    /\ sentCount' = m.sentCount
    /\ lastSent' = m.lastSent
    /\ simSentCount' = m.simSentCount
    /\ probed' = m.probed

Emit(m, sig) == [m EXCEPT !.emitted[sig] = @ + 1]

\* emit calibrationFailed(reason)
EmitFailed(m, reason) == [Emit(m, "calibrationFailed") EXCEPT !.lastFailure = reason]

\* emit calibrationCompleted(config), with the slot
\* ConfigDialog::onCalibrationCompleted, which copies the config.
EmitCompleted(m) ==
    [Emit(m, "calibrationCompleted") EXCEPT !.currentConfig = m.calibratedConfig]

canCalibrate == isDeveloperMode \/ linkConnected

\* ------------------------------------------------- CalibrationManager code
resetCalibration(m) ==
    [m EXCEPT !.currentStep = StepNotStarted,
              !.calibrationResults = << >>,
              !.currentRetry = 0,
              !.calibratedConfig = DefaultConfig]

sendCalibrationCommand(m, command) ==
    IF isDeveloperMode
    THEN [m EXCEPT !.simSentCount = @ + 1]
    ELSE [m EXCEPT !.sentCount = @ + 1, !.lastSent = command]

StepSuccessor(step) ==
    CASE step = StepMotorResponseTime -> StepStraightTracking
      [] step = StepStraightTracking -> StepTurnAccuracy
      [] step = StepTurnAccuracy -> StepGyroscopeCalibration
      [] step = StepGyroscopeCalibration -> StepMotorBalance
      [] step = StepMotorBalance -> StepFinalization
      [] step = StepFinalization -> StepCompleted
      [] OTHER -> StepCompleted

\* a nextStep that carries the retry counter over to the next step
nextStep_KeepsRetry(m) ==
    [m EXCEPT !.currentStep = StepSuccessor(m.currentStep),
              !.stepTimer = InterStepDelay]

nextStep(m) ==
    [m EXCEPT !.currentRetry = 0,
              !.currentStep = StepSuccessor(m.currentStep),
              !.stepTimer = InterStepDelay]

StepName(step) ==
    CASE step = StepMotorResponseTime -> "Motor Response Time"
      [] step = StepStraightTracking -> "Straight Tracking"
      [] step = StepTurnAccuracy -> "Turn Accuracy"
      [] step = StepGyroscopeCalibration -> "Gyroscope Drift"
      [] step = StepMotorBalance -> "Motor Balance"
      [] step = StepFinalization -> "Step 6"
      [] step = StepCompleted -> "Step 7"
      [] OTHER -> "Step 0"

StepResult(step, success, measuredValue) ==
    [ success |-> success,
      stepName |-> StepName(step),
      measuredValue |-> measuredValue,
      confidence |-> IF success THEN SuccessConfidence ELSE 0 ]

\* the retry cap compared with <= instead of <
RetryOrAbort_OffByOne(m) ==
    IF m.currentRetry + 1 <= maxRetries
    THEN [m EXCEPT !.currentRetry = @ + 1, !.stepTimer = RetryDelay]
    ELSE [EmitFailed([m EXCEPT !.currentRetry = @ + 1], "Step failed after 3 attempts")
            EXCEPT !.calibrationRunning = FALSE]

RetryOrAbort(m) ==
    IF m.currentRetry + 1 < maxRetries
    THEN [m EXCEPT !.currentRetry = @ + 1, !.stepTimer = RetryDelay]
    ELSE [EmitFailed([m EXCEPT !.currentRetry = @ + 1], "Step failed after 3 attempts")
            EXCEPT !.calibrationRunning = FALSE]

completeCurrentStep(m, success, measuredValue) ==
    LET m1 == [m EXCEPT !.timeoutTimer = NoTimer,
                        !.calibrationResults =
                            Append(@, StepResult(m.currentStep, success, measuredValue))]
        m2 == Emit(m1, "calibrationStepCompleted")
    IN  IF success THEN nextStep(m2) ELSE RetryOrAbort(m2)

Shot(kind, t) == [kind |-> kind, t |-> t]

AddShots(m, shots) == [m EXCEPT !.singleShots = @ \cup shots]

SetConfig(m, c) == [m EXCEPT !.calibratedConfig = c]

\* the simulated branch driving the simulator before it completes the step
calibrateMotorResponseTime_ProbesSimulator(m) ==
    IF isDeveloperMode
    THEN completeCurrentStep(
            SetConfig(sendCalibrationCommand(m, DriveCommand(MOTOR_RESPONSE_TEST_SPEED, 0)),
                      [m.calibratedConfig EXCEPT
                             !.leftMotorDelay = 25000, !.rightMotorDelay = 25000,
                             !.arm1MotorDelay = 25000, !.arm2MotorDelay = 25000,
                             !.motorResponseTime = 25000]),
            TRUE, 25000)
    ELSE IF linkConnected
    THEN AddShots(sendCalibrationCommand(m, DriveCommand(MOTOR_RESPONSE_TEST_SPEED, 0)),
                  {Shot("stopMotorResponse", 2), Shot("analyzeMotorResponse", 5)})
    ELSE completeCurrentStep(m, FALSE, 0)

calibrateMotorResponseTime(m) ==
    IF isDeveloperMode
    THEN completeCurrentStep(
            SetConfig(m, [m.calibratedConfig EXCEPT
                             !.leftMotorDelay = 25000, !.rightMotorDelay = 25000,
                             !.arm1MotorDelay = 25000, !.arm2MotorDelay = 25000,
                             !.motorResponseTime = 25000]),
            TRUE, 25000)
    ELSE IF linkConnected
    THEN AddShots(sendCalibrationCommand(m, DriveCommand(MOTOR_RESPONSE_TEST_SPEED, 0)),
                  {Shot("stopMotorResponse", 2), Shot("analyzeMotorResponse", 5)})
    ELSE completeCurrentStep(m, FALSE, 0)

calibrateStraightTracking(m) ==
    IF isDeveloperMode
    THEN completeCurrentStep(
            SetConfig(m, [m.calibratedConfig EXCEPT
                             !.straightDriftCorrection = 500,
                             !.leftMotorSpeedFactor = 1000,
                             !.rightMotorSpeedFactor = 980]),
            TRUE, 500)
    ELSE IF linkConnected
    THEN AddShots(sendCalibrationCommand(m, DriveCommand(MOTOR_RESPONSE_TEST_SPEED, 0)),
                  {Shot("stopStraightTracking", 20)})
    ELSE completeCurrentStep(m, FALSE, 0)

calibrateTurnAccuracy(m) ==
    IF isDeveloperMode
    THEN completeCurrentStep(
            SetConfig(m, [m.calibratedConfig EXCEPT !.turnAccuracyFactor = 950]),
            TRUE, 950)
    ELSE IF linkConnected
    THEN AddShots(sendCalibrationCommand(m, DriveCommand(0, 100000)),
                  {Shot("stopTurnAccuracy", 15)})
    ELSE completeCurrentStep(m, FALSE, 0)

calibrateGyroscope(m) ==
    IF isDeveloperMode
    THEN completeCurrentStep(
            SetConfig(m, [m.calibratedConfig EXCEPT
                             !.gyroscopeDrift = 2, !.gyroscopeDelay = 15000]),
            TRUE, 2)
    ELSE IF linkConnected
    THEN AddShots(sendCalibrationCommand(m, CalibrateCommand),
                  {Shot("analyzeGyroscopeData", 1)})
    ELSE completeCurrentStep(m, FALSE, 0)

calibrateMotorBalance(m) ==
    IF isDeveloperMode
    THEN completeCurrentStep(
            SetConfig(m, [m.calibratedConfig EXCEPT
                             !.leftMotorSpeedFactor = 1000,
                             !.rightMotorSpeedFactor = 980]),
            TRUE, 980)
    ELSE IF linkConnected
    THEN AddShots(sendCalibrationCommand(m, CalibrateCommand),
                  {Shot("analyzeMotorBalance", 1)})
    ELSE completeCurrentStep(m, FALSE, 0)

RECURSIVE SumConfidence(_)
SumConfidence(results) ==
    IF results = << >> THEN 0
    ELSE (IF Head(results).success THEN Head(results).confidence ELSE 0)
         + SumConfidence(Tail(results))

RECURSIVE CountValid(_)
CountValid(results) ==
    IF results = << >> THEN 0
    ELSE (IF Head(results).success THEN 1 ELSE 0) + CountValid(Tail(results))

\* the mean taken over every result instead of the successful ones
QualityScore_CountsFailures(results) ==
    IF Len(results) > 0
    THEN (SumConfidence(results) * 100) \div Len(results)
    ELSE 0

\* qualityScore in milli-percent: (totalConfidence / validResults) * 100.0
QualityScore(results) ==
    IF CountValid(results) > 0
    THEN (SumConfidence(results) * 100) \div CountValid(results)
    ELSE 0

finalizeCalibration(m) ==
    LET qualityScore == QualityScore(m.calibrationResults)
        m1 == SetConfig(m, [m.calibratedConfig EXCEPT
                                !.isCalibrated = TRUE,
                                !.calibrationDate = "stamped",
                                !.calibrationQuality = qualityScore])
        finalResult == [ success |-> TRUE,
                         stepName |-> "Calibration Complete",
                         measuredValue |-> qualityScore,
                         confidence |-> qualityScore \div 100 ]
    IN  IF qualityScore < QUALITY_THRESHOLD
        THEN EmitFailed(m1, "Calibration quality too low")
        ELSE [Emit([m1 EXCEPT !.calibrationResults = Append(@, finalResult)],
                   "calibrationStepCompleted")
                EXCEPT !.currentStep = StepCompleted, !.stepTimer = StartDelay]

\* The body of processCalibrationStep once the stepTimer has fired.
processCalibrationStep(m) ==
    IF ~m.calibrationRunning THEN m
    ELSE
      LET m1 == [m EXCEPT !.timeoutTimer =
                              IF isDeveloperMode THEN DevTimeout ELSE timeoutDuration]
          enter == [Emit(m1, "calibrationStepChanged")
                       EXCEPT !.probed = @ \cup {m.currentStep}]
      IN  CASE m.currentStep = StepMotorResponseTime -> calibrateMotorResponseTime(enter)
            [] m.currentStep = StepStraightTracking -> calibrateStraightTracking(enter)
            [] m.currentStep = StepTurnAccuracy -> calibrateTurnAccuracy(enter)
            [] m.currentStep = StepGyroscopeCalibration -> calibrateGyroscope(enter)
            [] m.currentStep = StepMotorBalance -> calibrateMotorBalance(enter)
            [] m.currentStep = StepFinalization -> finalizeCalibration(enter)
            [] m.currentStep = StepCompleted ->
                   [EmitCompleted(m1) EXCEPT !.calibrationRunning = FALSE]
            [] OTHER ->
                   [EmitFailed(m1, "Unknown calibration step")
                       EXCEPT !.calibrationRunning = FALSE]

analyzeMotorResponse(m, responseTime) ==
    completeCurrentStep(
        SetConfig(m, [m.calibratedConfig EXCEPT
                         !.motorResponseTime = responseTime,
                         !.leftMotorDelay = (responseTime * 9) \div 10,
                         !.rightMotorDelay = (responseTime * 11) \div 10,
                         !.arm1MotorDelay = responseTime,
                         !.arm2MotorDelay = responseTime]),
        TRUE, responseTime)

analyzeStraightTracking(m) ==
    completeCurrentStep(
        SetConfig(m, [m.calibratedConfig EXCEPT
                         !.straightDriftCorrection = 300,
                         !.leftMotorSpeedFactor = 1000,
                         !.rightMotorSpeedFactor = 990]),
        TRUE, 300)

analyzeTurnAccuracy(m) ==
    completeCurrentStep(
        SetConfig(m, [m.calibratedConfig EXCEPT !.turnAccuracyFactor = 970]),
        TRUE, 970)

analyzeGyroscopeData(m) ==
    completeCurrentStep(
        SetConfig(m, [m.calibratedConfig EXCEPT
                         !.gyroscopeDrift = 1, !.gyroscopeDelay = 18000]),
        TRUE, 1)

analyzeMotorBalance(m) ==
    completeCurrentStep(
        SetConfig(m, [m.calibratedConfig EXCEPT
                         !.leftMotorSpeedFactor = 1000,
                         !.rightMotorSpeedFactor = 980]),
        TRUE, 980)

\* The lambda a QTimer::singleShot runs when it fires.
RunShot(m, kind, responseTime) ==
    CASE kind = "stopMotorResponse" -> sendCalibrationCommand(m, DriveCommand(0, 0))
      [] kind = "stopStraightTracking" ->
            AddShots(sendCalibrationCommand(m, DriveCommand(0, 0)),
                     {Shot("analyzeStraightTracking", 1)})
      [] kind = "stopTurnAccuracy" ->
            AddShots(sendCalibrationCommand(m, DriveCommand(0, 0)),
                     {Shot("analyzeTurnAccuracy", 1)})
      [] kind = "analyzeMotorResponse" -> analyzeMotorResponse(m, responseTime)
      [] kind = "analyzeStraightTracking" -> analyzeStraightTracking(m)
      [] kind = "analyzeTurnAccuracy" -> analyzeTurnAccuracy(m)
      [] kind = "analyzeGyroscopeData" -> analyzeGyroscopeData(m)
      [] OTHER -> analyzeMotorBalance(m)

\* ---------------------------------------------------------------- actions
CalInit ==
    /\ configured = FALSE
    /\ isDeveloperMode = FALSE
    /\ linkConnected = FALSE
    /\ calibrationRunning = FALSE
    /\ currentStep = StepNotStarted
    /\ currentRetry = 0
    /\ calibrationResults = << >>
    /\ calibratedConfig = DefaultConfig
    /\ stepTimer = NoTimer
    /\ timeoutTimer = NoTimer
    /\ singleShots = {}
    /\ currentConfig = DefaultConfig
    /\ emitted = ZeroEmitted
    /\ lastFailure = ""
    /\ sentCount = 0
    /\ lastSent = NoCommand
    /\ simSentCount = 0
    /\ probed = {}
    /\ lastOp = "construct"
    /\ run = [started |-> FALSE, cancelled |-> FALSE,
              currentConfig |-> DefaultConfig]
    /\ starts = 0
    /\ linkChanges = 0

NoDispatch == [command |-> NoCommand, sent |-> NoCommand, targets |-> {}]

\* ----------------------------------------------------------- RobotSimulator
\* Lengths, angles, speeds and accelerations are in thousandths (of a pixel,
\* a degree, a unit per second); dt is in milliseconds, that is thousandths
\* of a second.  Products are truncated toward zero.
robotMass == 2500
robotInertia == 120
armInertia == 50
maxDriveAccel == 800000
maxTurnAccel == 600000
maxArmAccel == 1000000
frictionCoeff == 50
motorLag == 30
dt == 20

Abs(x) == IF x < 0 THEN 0 - x ELSE x

Trunc(n, d) == IF n >= 0 THEN n \div d ELSE 0 - ((0 - n) \div d)

FMul(a, b) == Trunc(a * b, Scale)

\* std::max, std::min, std::clamp and std::fmod
Max(a, b) == IF a > b THEN a ELSE b

Min(a, b) == IF a < b THEN a ELSE b

Clamp(x, lo, hi) == IF x < lo THEN lo ELSE IF x > hi THEN hi ELSE x

Fmod(x, m) == x - m * Trunc(x, m)

\* std::exp(-k * 0.1) for k = 0 .. 70, in thousandths
ExpTable ==
    << 1000, 905, 819, 741, 670, 607, 549, 497, 449, 407, 368, 333,
       301, 273, 247, 223, 202, 183, 165, 150, 135, 122, 111, 100,
       91, 82, 74, 67, 61, 55, 50, 45, 41, 37, 33, 30,
       27, 25, 22, 20, 18, 17, 15, 14, 12, 11, 10, 9,
       8, 7, 7, 6, 6, 5, 5, 4, 4, 3, 3, 3,
       2, 2, 2, 2, 2, 2, 1, 1, 1, 1, 1 >>

\* std::exp(-x * 0.1) for x >= 0: the table, interpolated linearly
ExpNeg(x) ==
    LET k == x \div Scale
    IN  IF k + 2 > Len(ExpTable) THEN 0
        ELSE ExpTable[k + 1]
             - ((ExpTable[k + 1] - ExpTable[k + 2]) * (x % Scale)) \div Scale

\* std::sin of 0, 10, .. 90 degrees, in thousandths
SinTable == << 0, 174, 342, 500, 643, 766, 866, 940, 985, 1000 >>

\* the sine of an angle between 0 and 90 degrees, interpolated linearly
SinQuarter(a) ==
    LET k == a \div 10000
    IN  IF k + 2 > Len(SinTable) THEN SinTable[Len(SinTable)]
        ELSE SinTable[k + 1]
             + ((SinTable[k + 2] - SinTable[k + 1]) * (a % 10000)) \div 10000

\* std::sin(angle * M_PI / 180.0)
Sin(angle) ==
    LET a == ((angle % 360000) + 360000) % 360000
    IN  IF a <= 90000 THEN SinQuarter(a)
        ELSE IF a <= 180000 THEN SinQuarter(180000 - a)
        ELSE IF a <= 270000 THEN 0 - SinQuarter(a - 180000)
        ELSE 0 - SinQuarter(360000 - a)

\* std::cos(angle * M_PI / 180.0)
Cos(angle) == Sin(angle + 90000)

\* RobotSimulator::RobotSimulator for a widget of the given size
NewSimulator(width, height) ==
    [ width |-> width, height |-> height,
      robotX |-> 200000, robotY |-> 150000, robotAngle |-> 0,
      arm1Angle |-> 0, arm2Angle |-> 0,
      targetSpd |-> 0, targetTurn |-> 0,
      targetArm1Spd |-> 0, targetArm2Spd |-> 0,
      actualSpd |-> 0, actualTurn |-> 0,
      actualArm1Spd |-> 0, actualArm2Spd |-> 0,
      speedAccel |-> 0, turnAccel |-> 0, arm1Accel |-> 0, arm2Accel |-> 0 ]

\* RobotSimulator::updateCommand
updateCommand(sim, command) ==
    IF command.type = "drive"
    THEN [sim EXCEPT !.targetSpd = FMul(command.speed, 1500),
                     !.targetTurn = FMul(command.turn_rate, 1200)]
    ELSE IF command.type = "arm1"
    THEN [sim EXCEPT !.targetArm1Spd = FMul(command.speed, 1000)]
    ELSE IF command.type = "arm2"
    THEN [sim EXCEPT !.targetArm2Spd = FMul(command.speed, 1000)]
    ELSE sim

\* RobotSimulator::resetSimulation
resetSimulation(sim) ==
    [ NewSimulator(sim.width, sim.height) EXCEPT
        !.robotX = Max(30000, Min(sim.width - 30000, sim.width \div 2)),
        !.robotY = Max(30000, Min(sim.height - 30000, sim.height \div 2)) ]

\* RobotSimulator::sCurveProfile; maxChange is not used by the code
sCurveProfile(error, maxChange, currentAccel, maxAccel) ==
    LET jerkLimit == maxAccel * 8
        targetAccel == Clamp(error * 15, 0 - maxAccel, maxAccel)
        accelError == targetAccel - currentAccel
        maxJerkChange == FMul(jerkLimit, dt)
        newAccel == IF Abs(accelError) > maxJerkChange
                    THEN currentAccel + (IF accelError > 0 THEN maxJerkChange
                                         ELSE 0 - maxJerkChange)
                    ELSE targetAccel
        frictionFactor == Scale - FMul(frictionCoeff, dt)
        damping == 920 + FMul(80, ExpNeg(Abs(error)))
    IN  FMul(FMul(newAccel, frictionFactor), damping)

\* actual += accel * dt * motorLagFactor; actual *= inertialDamping
Integrate(actual, accel) ==
    FMul(actual + FMul(FMul(accel, dt), Scale - motorLag), 995)

\* RobotSimulator::applyRealisticMotorPhysics
applyRealisticMotorPhysics(sim) ==
    LET speedAccel == sCurveProfile(sim.targetSpd - sim.actualSpd,
                          FMul(maxDriveAccel, dt), sim.speedAccel, maxDriveAccel)
        turnAccel == sCurveProfile(sim.targetTurn - sim.actualTurn,
                          FMul(maxTurnAccel, dt), sim.turnAccel, maxTurnAccel)
        arm1Accel == sCurveProfile(sim.targetArm1Spd - sim.actualArm1Spd,
                          FMul(maxArmAccel, dt), sim.arm1Accel, maxArmAccel)
        arm2Accel == sCurveProfile(sim.targetArm2Spd - sim.actualArm2Spd,
                          FMul(maxArmAccel, dt), sim.arm2Accel, maxArmAccel)
    IN  [sim EXCEPT !.speedAccel = speedAccel,
                    !.turnAccel = turnAccel,
                    !.arm1Accel = arm1Accel,
                    !.arm2Accel = arm2Accel,
                    !.actualSpd = Integrate(@, speedAccel),
                    !.actualTurn = Integrate(@, turnAccel),
                    !.actualArm1Spd = Integrate(@, arm1Accel),
                    !.actualArm2Spd = Integrate(@, arm2Accel)]

\* the position that a tick would reach, before any clamp
MovedRobot(sim) ==
    LET simSpeed == FMul(sim.actualSpd, 150)
        simTurn == FMul(sim.actualTurn, 800)
        momentumFactor == Trunc(Scale * Scale, Scale + FMul(robotMass, 100))
        inertiaFactor == Trunc(Scale * Scale, Scale + FMul(robotInertia, 2000))
        robotAngle == Fmod(sim.robotAngle
                           + FMul(FMul(simTurn, dt), inertiaFactor), 360000)
        dx == FMul(FMul(FMul(simSpeed, Cos(robotAngle)), dt), momentumFactor)
        dy == FMul(FMul(FMul(simSpeed, Sin(robotAngle)), dt), momentumFactor)
    IN  [sim EXCEPT !.robotAngle = robotAngle,
                    !.robotX = @ + dx,
                    !.robotY = @ + dy]

\* an updateRobotPosition that lets the robot leave the workspace
updateRobotPosition_NoClamp(sim) ==
    IF Abs(sim.actualSpd) > 10 \/ Abs(sim.actualTurn) > 10
    THEN MovedRobot(sim)
    ELSE sim

\* RobotSimulator::updateRobotPosition
updateRobotPosition(sim) ==
    IF Abs(sim.actualSpd) > 10 \/ Abs(sim.actualTurn) > 10
    THEN [MovedRobot(sim) EXCEPT
             !.robotX = Clamp(@, 30000, sim.width - 30000),
             !.robotY = Clamp(@, 30000, sim.height - 30000)]
    ELSE sim

\* arm angle += actualArmSpd * 0.3 * dt * armMomentum
MovedArm(angle, actualArmSpd) ==
    LET armMomentum == Trunc(Scale * Scale, Scale + FMul(armInertia, 800))
    IN  angle + FMul(FMul(FMul(actualArmSpd, 300), dt), armMomentum)

\* an updateArmPositions without the end stops
updateArmPositions_NoClamp(sim) ==
    [sim EXCEPT
        !.arm1Angle = IF Abs(sim.actualArm1Spd) > 100
                      THEN MovedArm(@, sim.actualArm1Spd) ELSE @,
        !.arm2Angle = IF Abs(sim.actualArm2Spd) > 100
                      THEN MovedArm(@, sim.actualArm2Spd) ELSE @]

\* RobotSimulator::updateArmPositions
updateArmPositions(sim) ==
    [sim EXCEPT
        !.arm1Angle = IF Abs(sim.actualArm1Spd) > 100
                      THEN Clamp(MovedArm(@, sim.actualArm1Spd),
                                 0 - 90000, 90000)
                      ELSE @,
        !.arm2Angle = IF Abs(sim.actualArm2Spd) > 100
                      THEN Clamp(MovedArm(@, sim.actualArm2Spd),
                                 0 - 90000, 90000)
                      ELSE @]

\* RobotSimulator::updateSimulation, the slot of the 20 ms timer
updateSimulation(sim) ==
    updateArmPositions(updateRobotPosition(applyRealisticMotorPhysics(sim)))

\* RobotSimulator::resizeEvent to a new widget size
resizeEvent(sim, width, height) ==
    [sim EXCEPT !.width = width,
                !.height = height,
                !.robotX = Clamp(@, 30000, width - 30000),
                !.robotY = Clamp(@, 30000, height - 30000)]

\* setMinimumSize(300, 200): the size of the widget until it is resized
MinimumWidth == 300000
MinimumHeight == 200000

\* BLEController after its constructor: the member initialisers of the header.
BleIdle ==
    /\ connectionState = "Disconnected"
    /\ scanning = FALSE
    /\ targetDevice = FALSE
    /\ controller = "none"
    /\ service = "none"
    /\ lastBleOp = "construct"
    /\ bleEvents = 0

\* The simulator after its constructor.
SimIdle ==
    /\ simulator = NewSimulator(MinimumWidth, MinimumHeight)
    /\ simTicks = 0

\* MainWindow constructor: no run loaded, playbackTimer not started.
PbIdle ==
    /\ isPlayingBack = FALSE
    /\ playbackCommands = << >>
    /\ playbackIndex = 0
    /\ playbackTimer = FALSE
    /\ playbackElapsed = 0
    /\ played = << >>
    /\ playbackReports = [completed |-> 0, indexError |-> 0]
    /\ playbacks = 0
    /\ lastStatus = "none"

\* The main window before any settings, input or recording.
MwIdle ==
    /\ robotConfig = DefaultConfig
    /\ mwDeveloperMode = FALSE
    /\ isConnected = FALSE
    /\ isRecording = FALSE
    /\ currentRecording = << >>
    /\ undoHistory = << >>
    /\ redoHistory = << >>
    /\ recordingElapsed = 0
    /\ lastDispatch = NoDispatch
    /\ dispatched = 0
    /\ recordings = 0
    /\ PbIdle
    /\ pressedKeys = {}
    /\ BleIdle
    /\ SimIdle

Init == CalInit /\ MwIdle

\* MainWindow::openConfigDialog wires the manager before the dialog runs.
OpenConfigDialogIn(modes) ==
    /\ ~configured
    /\ \E dev \in modes, conn \in BOOLEAN :
          /\ isDeveloperMode' = dev
          /\ linkConnected' = conn
    /\ configured' = TRUE
    /\ lastOp' = "openConfigDialog"
    /\ UNCHANGED mwVars
    /\ UNCHANGED << calibrationRunning, currentStep, currentRetry,
                    calibrationResults, calibratedConfig, stepTimer,
                    timeoutTimer, singleShots, currentConfig, emitted,
                    lastFailure, sentCount, lastSent, simSentCount, probed,
                    run, starts, linkChanges >>

\* The hardware link connects or drops on its own.
OpenConfigDialog == OpenConfigDialogIn(BOOLEAN)

\* The dialog opened while the main window is in developer mode.
OpenSimulatedDialog == OpenConfigDialogIn({TRUE})

LinkChange ==
    /\ configured
    /\ linkChanges < MaxLinkChanges
    /\ linkConnected' = ~linkConnected
    /\ linkChanges' = linkChanges + 1
    /\ lastOp' = "linkChange"
    /\ UNCHANGED mwVars
    /\ UNCHANGED << configured, isDeveloperMode, calibrationRunning,
                    currentStep, currentRetry, calibrationResults,
                    calibratedConfig, stepTimer, timeoutTimer, singleShots,
                    currentConfig, emitted, lastFailure, sentCount, lastSent,
                    simSentCount, probed, run, starts >>

\* a startCalibration that restarts a run in progress
startCalibration_Restarts(m) ==
    IF ~canCalibrate
    THEN EmitFailed(m, "Cannot perform calibration")
    ELSE [Emit([resetCalibration(m) EXCEPT !.calibrationRunning = TRUE,
                                           !.currentStep = StepMotorResponseTime,
                                           !.probed = {},
                                           !.emitted = ZeroEmitted,
                                           !.sentCount = 0,
                                           !.simSentCount = 0],
               "calibrationStarted")
            EXCEPT !.stepTimer = StartDelay]

\* startCalibration resetting before it has checked the entry guard
startCalibration_ResetFirst(m) ==
    IF m.calibrationRunning THEN m
    ELSE IF ~canCalibrate
    THEN EmitFailed(resetCalibration(m), "Cannot perform calibration")
    ELSE [Emit([resetCalibration(m) EXCEPT !.calibrationRunning = TRUE,
                                           !.currentStep = StepMotorResponseTime,
                                           !.probed = {},
                                           !.emitted = ZeroEmitted,
                                           !.sentCount = 0,
                                           !.simSentCount = 0],
               "calibrationStarted")
            EXCEPT !.stepTimer = StartDelay]

startCalibration(m) ==
    IF m.calibrationRunning THEN m
    ELSE IF ~canCalibrate
    THEN EmitFailed(m, "Cannot perform calibration")
    ELSE [Emit([resetCalibration(m) EXCEPT !.calibrationRunning = TRUE,
                                           !.currentStep = StepMotorResponseTime,
                                           !.probed = {},
                                           !.emitted = ZeroEmitted,
                                           !.sentCount = 0,
                                           !.simSentCount = 0],
               "calibrationStarted")
            EXCEPT !.stepTimer = StartDelay]

StartCalibration ==
    /\ configured
    /\ calibrationRunning \/ starts < MaxStarts
    /\ SetMgr(startCalibration(Mgr))
    /\ lastOp' = IF calibrationRunning THEN "startIgnored"
                 ELSE IF ~canCalibrate THEN "startRejected" ELSE "startCalibration"
    /\ starts' = IF calibrationRunning THEN starts ELSE starts + 1
    /\ run' = IF calibrationRunning THEN run
              ELSE IF ~canCalibrate THEN [run EXCEPT !.cancelled = FALSE]
              ELSE [started |-> TRUE, cancelled |-> FALSE,
                    currentConfig |-> currentConfig]
    /\ UNCHANGED mwVars
    /\ UNCHANGED << configured, isDeveloperMode, linkConnected, linkChanges >>

\* stopCalibration handing the partly measured config to the dialog
stopCalibration_AppliesPartial(m) ==
    IF ~m.calibrationRunning THEN m
    ELSE EmitFailed([m EXCEPT !.calibrationRunning = FALSE,
                              !.stepTimer = NoTimer,
                              !.timeoutTimer = NoTimer,
                              !.currentConfig = m.calibratedConfig],
                    "Calibration cancelled by user")

stopCalibration(m) ==
    IF ~m.calibrationRunning THEN m
    ELSE EmitFailed([m EXCEPT !.calibrationRunning = FALSE,
                              !.stepTimer = NoTimer,
                              !.timeoutTimer = NoTimer],
                    "Calibration cancelled by user")

StopCalibration ==
    /\ configured
    /\ SetMgr(stopCalibration(Mgr))
    /\ lastOp' = IF calibrationRunning THEN "stopCalibration" ELSE "stopIgnored"
    /\ run' = IF calibrationRunning THEN [run EXCEPT !.cancelled = TRUE] ELSE run
    /\ UNCHANGED mwVars
    /\ UNCHANGED << configured, isDeveloperMode, linkConnected,
                    starts, linkChanges >>

\* stepTimer times out: the single-shot timer is inactive when its slot runs.
StepTimerFire ==
    /\ stepTimer = 0
    /\ SetMgr(processCalibrationStep([Mgr EXCEPT !.stepTimer = NoTimer]))
    /\ lastOp' = "processCalibrationStep"
    /\ UNCHANGED mwVars
    /\ UNCHANGED << configured, isDeveloperMode, linkConnected, run,
                    starts, linkChanges >>

onCalibrationTimeout(m) == completeCurrentStep(m, FALSE, 0)

WatchdogFire ==
    /\ timeoutTimer = 0
    /\ SetMgr(onCalibrationTimeout([Mgr EXCEPT !.timeoutTimer = NoTimer]))
    /\ lastOp' = "onCalibrationTimeout"
    /\ UNCHANGED mwVars
    /\ UNCHANGED << configured, isDeveloperMode, linkConnected, run,
                    starts, linkChanges >>

SingleShotFire ==
    /\ \E shot \in singleShots :
          /\ shot.t = 0
          /\ \E responseTime \in ResponseTimes :
                SetMgr(RunShot([Mgr EXCEPT !.singleShots = @ \ {shot}],
                               shot.kind, responseTime))
          /\ lastOp' = shot.kind
    /\ UNCHANGED mwVars
    /\ UNCHANGED << configured, isDeveloperMode, linkConnected, run,
                    starts, linkChanges >>

TimerDue ==
    \/ stepTimer = 0
    \/ timeoutTimer = 0
    \/ \E shot \in singleShots : shot.t = 0

TimerActive ==
    \/ stepTimer # NoTimer
    \/ timeoutTimer # NoTimer
    \/ singleShots # {}

\* 100 ms pass: possible only when every due timer has been served.
Tick ==
    /\ TimerActive
    /\ ~TimerDue
    /\ stepTimer' = IF stepTimer = NoTimer THEN NoTimer ELSE stepTimer - 1
    /\ timeoutTimer' = IF timeoutTimer = NoTimer THEN NoTimer ELSE timeoutTimer - 1
    /\ singleShots' = {Shot(shot.kind, shot.t - 1) : shot \in singleShots}
    /\ lastOp' = "tick"
    /\ UNCHANGED mwVars
    /\ UNCHANGED << configured, isDeveloperMode, linkConnected,
                    calibrationRunning, currentStep, currentRetry,
                    calibrationResults, calibratedConfig, currentConfig,
                    emitted, lastFailure, sentCount, lastSent, simSentCount,
                    probed, run, starts, linkChanges >>

Next ==
    \/ OpenConfigDialog
    \/ LinkChange
    \/ StartCalibration
    \/ StopCalibration
    \/ StepTimerFire
    \/ WatchdogFire
    \/ SingleShotFire
    \/ Tick

Spec == Init /\ [][Next]_vars

\* The calibration dialog of a main window in developer mode.  Qt's event
\* loop serves every due timer and time keeps passing.
SimNext ==
    \/ OpenSimulatedDialog
    \/ LinkChange
    \/ StartCalibration
    \/ StopCalibration
    \/ StepTimerFire
    \/ WatchdogFire
    \/ Tick

SimSpec ==
    /\ Init
    /\ [][SimNext]_vars
    /\ WF_vars(Tick)
    /\ WF_vars(StepTimerFire)
    /\ WF_vars(WatchdogFire)

\* ------------------------------------------------------------- MainWindow
\* Fixed-point product of two milli-scaled numbers.
Mul(a, b) == (a * b) \div Scale

\* the compensation applied to forward motion only
CompensateDrive_ForwardOnly(config, command) ==
    LET speed == command.speed
        turnRate == command.turn_rate
        c1 == IF speed > 0
              THEN [command EXCEPT !.speed =
                       (Mul(speed, config.leftMotorSpeedFactor)
                        + Mul(speed, config.rightMotorSpeedFactor)) \div 2]
              ELSE command
        c2 == IF turnRate # 0
              THEN [c1 EXCEPT !.turn_rate = Mul(turnRate, config.turnAccuracyFactor)]
              ELSE c1
    IN  IF speed > 0 /\ turnRate = 0
        THEN [c2 EXCEPT !.turn_rate = config.straightDriftCorrection]
        ELSE c2

\* executeCommand, lines 1447-1477: the compensation of a drive command
CompensateDrive(config, command) ==
    LET speed == command.speed
        turnRate == command.turn_rate
        c1 == IF speed > 0 \/ speed < 0
              THEN [command EXCEPT !.speed =
                       (Mul(speed, config.leftMotorSpeedFactor)
                        + Mul(speed, config.rightMotorSpeedFactor)) \div 2]
              ELSE command
        c2 == IF turnRate # 0
              THEN [c1 EXCEPT !.turn_rate = Mul(turnRate, config.turnAccuracyFactor)]
              ELSE c1
    IN  IF speed # 0 /\ turnRate = 0
        THEN [c2 EXCEPT !.turn_rate = config.straightDriftCorrection]
        ELSE c2

\* the guard reading the isCalibrated flag alone
compensatedCommand_FlagOnly(config, command) ==
    IF config.isCalibrated /\ command.type = "drive"
    THEN CompensateDrive(config, command)
    ELSE command

compensatedCommand(config, command) ==
    IF hasValidCalibration(config) /\ command.type = "drive"
    THEN CompensateDrive(config, command)
    ELSE command

\* the snapshot pushed without clearing the redo stack
saveRecordingState_KeepsRedo(recording, h) ==
    IF recording
    THEN LET pushed == Append(h.undoHistory, h.currentRecording)
         IN  [h EXCEPT !.undoHistory = IF Len(pushed) > MAX_HISTORY
                                       THEN Tail(pushed) ELSE pushed]
    ELSE h

\* the snapshot pushed with no limit on the undo stack
saveRecordingState_Unbounded(recording, h) ==
    IF recording
    THEN [h EXCEPT !.undoHistory = Append(h.undoHistory, h.currentRecording),
                   !.redoHistory = << >>]
    ELSE h

\* the newest snapshot dropped at the cap instead of the oldest
saveRecordingState_EvictsNewest(recording, h) ==
    IF recording
    THEN LET pushed == Append(h.undoHistory, h.currentRecording)
         IN  [h EXCEPT !.undoHistory = IF Len(pushed) > MAX_HISTORY
                                       THEN h.undoHistory ELSE pushed,
                       !.redoHistory = << >>]
    ELSE h

\* MainWindow::saveRecordingState on the history h (buffer, undo, redo)
saveRecordingState(recording, h) ==
    IF recording
    THEN LET pushed == Append(h.undoHistory, h.currentRecording)
         IN  [h EXCEPT !.undoHistory = IF Len(pushed) > MAX_HISTORY
                                       THEN Tail(pushed) ELSE pushed,
                       !.redoHistory = << >>]
    ELSE h

ArmCommand(type, s) == [type |-> type, speed |-> s]

\* Commands of processKeyCommand (W/S/A/D/SPACE, Q/E) and of a played log.
Commands ==
    { DriveCommand(100000, 0), DriveCommand(0 - 200000, 0),
      DriveCommand(0, 100000), DriveCommand(200000, 0 - 100000),
      DriveCommand(0, 0), ArmCommand("arm1", 200000) }

CalibrationValues(l, r, t, d) ==
    [DefaultConfig EXCEPT !.leftMotorSpeedFactor = l, !.rightMotorSpeedFactor = r,
                          !.turnAccuracyFactor = t, !.straightDriftCorrection = d]

Validity(c, flag, date, quality) ==
    [c EXCEPT !.isCalibrated = flag, !.calibrationDate = date,
              !.calibrationQuality = quality]

\* Configs a settings file or the configuration dialog can hand over: the
\* defaults, the result of a simulated calibration, the documented example,
\* and the example with one of the three validity fields missing.
Configs ==
    { DefaultConfig,
      Validity(CalibrationValues(1000, 980, 950, 500), TRUE, "stamped", 90000),
      Validity(CalibrationValues(1000, 980, 1000, 300), TRUE, "stamped", 90000),
      Validity(CalibrationValues(1000, 980, 1000, 300), TRUE, "", 90000),
      Validity(CalibrationValues(1000, 980, 1000, 300), TRUE, "stamped", 0),
      Validity(CalibrationValues(1000, 980, 1000, 300), FALSE, "stamped", 90000) }

\* The main window after its constructor, which ends with loadSettings().
MwInit ==
    /\ robotConfig \in Configs
    /\ mwDeveloperMode \in BOOLEAN
    /\ isConnected = FALSE
    /\ isRecording = FALSE
    /\ currentRecording = << >>
    /\ undoHistory = << >>
    /\ redoHistory = << >>
    /\ recordingElapsed = 0
    /\ lastDispatch = NoDispatch
    /\ dispatched = 0
    /\ recordings = 0
    /\ PbIdle
    /\ pressedKeys = {}
    /\ BleIdle
    /\ SimIdle

\* The hub connects or disconnects (BLE controller signals).
HubConnectionChanged ==
    /\ isConnected' = ~isConnected
    /\ UNCHANGED << robotConfig, mwDeveloperMode, isRecording, currentRecording,
                    undoHistory, redoHistory, recordingElapsed, lastDispatch,
                    dispatched, recordings >>
    /\ UNCHANGED pbVars
    /\ UNCHANGED simVars
    /\ UNCHANGED pressedKeys
    /\ UNCHANGED bleVars
    /\ UNCHANGED calVars

toggleDeveloperMode ==
    /\ mwDeveloperMode' = ~mwDeveloperMode
    /\ simulator' = IF mwDeveloperMode THEN simulator
                    ELSE resetSimulation(simulator)
    /\ UNCHANGED << robotConfig, isConnected, isRecording, currentRecording,
                    undoHistory, redoHistory, recordingElapsed, lastDispatch,
                    dispatched, recordings, simTicks >>
    /\ UNCHANGED pbVars
    /\ UNCHANGED pressedKeys
    /\ UNCHANGED bleVars
    /\ UNCHANGED calVars

\* openConfigDialog returning Accepted: robotConfig = dialog.getConfig()
AcceptConfigDialogFrom(configs) ==
    /\ \E config \in configs : robotConfig' = config
    /\ UNCHANGED << mwDeveloperMode, isConnected, isRecording, currentRecording,
                    undoHistory, redoHistory, recordingElapsed, lastDispatch,
                    dispatched, recordings >>
    /\ UNCHANGED pbVars
    /\ UNCHANGED simVars
    /\ UNCHANGED pressedKeys
    /\ UNCHANGED bleVars
    /\ UNCHANGED calVars

AcceptConfigDialog == AcceptConfigDialogFrom(Configs)

\* a recording start that keeps the previous buffer
toggleRecording_KeepsBuffer ==
    /\ IF isRecording
       THEN /\ isRecording' = FALSE
            /\ UNCHANGED << currentRecording, recordingElapsed, recordings >>
       ELSE /\ recordings < MaxRecordings
            /\ currentRecording' = currentRecording
            /\ isRecording' = TRUE
            /\ recordingElapsed' = 0
            /\ recordings' = recordings + 1
    /\ UNCHANGED << robotConfig, mwDeveloperMode, isConnected, undoHistory,
                    redoHistory, lastDispatch, dispatched >>
    /\ UNCHANGED pbVars
    /\ UNCHANGED simVars
    /\ UNCHANGED pressedKeys
    /\ UNCHANGED bleVars
    /\ UNCHANGED calVars

toggleRecording ==
    /\ IF isRecording
       THEN /\ isRecording' = FALSE
            /\ UNCHANGED << currentRecording, recordingElapsed, recordings >>
       ELSE /\ recordings < MaxRecordings
            /\ currentRecording' = << >>
            /\ isRecording' = TRUE
            /\ recordingElapsed' = 0
            /\ recordings' = recordings + 1
    /\ UNCHANGED << robotConfig, mwDeveloperMode, isConnected, undoHistory,
                    redoHistory, lastDispatch, dispatched >>
    /\ UNCHANGED pbVars
    /\ UNCHANGED simVars
    /\ UNCHANGED pressedKeys
    /\ UNCHANGED bleVars
    /\ UNCHANGED calVars

\* The recording clock advances.
RecordingClock ==
    /\ isRecording
    /\ recordingElapsed < MaxElapsed
    /\ recordingElapsed' = recordingElapsed + 1
    /\ UNCHANGED << robotConfig, mwDeveloperMode, isConnected, isRecording,
                    currentRecording, undoHistory, redoHistory, lastDispatch,
                    dispatched, recordings >>
    /\ UNCHANGED pbVars
    /\ UNCHANGED simVars
    /\ UNCHANGED pressedKeys
    /\ UNCHANGED bleVars
    /\ UNCHANGED calVars

\* The part of the main window executeCommand writes.
Dispatcher ==
    [ lastDispatch |-> lastDispatch, currentRecording |-> currentRecording,
      undoHistory |-> undoHistory, redoHistory |-> redoHistory,
      simulator |-> simulator ]

RecordedCommand(timestamp, commandType, parameters) ==
    [ timestamp |-> timestamp, commandType |-> commandType,
      parameters |-> parameters ]

\* the buffer entry built from the compensated command
executeCommandOn_RecordsSent(w, command) ==
    LET sent == compensatedCommand(robotConfig, command)
        call == [ command |-> command,
                  sent |-> sent,
                  targets |-> IF mwDeveloperMode THEN {"simulator"}
                              ELSE IF isConnected THEN {"link"} ELSE {} ]
        sim == IF mwDeveloperMode THEN updateCommand(w.simulator, sent)
               ELSE w.simulator
        saved == saveRecordingState(isRecording,
                     [ currentRecording |-> w.currentRecording,
                       undoHistory |-> w.undoHistory,
                       redoHistory |-> w.redoHistory ])
    IN  IF isRecording
        THEN [ lastDispatch |-> call,
               simulator |-> sim,
               undoHistory |-> saved.undoHistory,
               redoHistory |-> saved.redoHistory,
               currentRecording |->
                   Append(saved.currentRecording,
                          RecordedCommand(recordingElapsed, sent.type,
                                          sent)) ]
        ELSE [w EXCEPT !.lastDispatch = call, !.simulator = sim]

\* the link tested with a plain if, not with else if
executeCommandOn_BothTargets(w, command) ==
    LET sent == compensatedCommand(robotConfig, command)
        call == [ command |-> command,
                  sent |-> sent,
                  targets |-> (IF mwDeveloperMode THEN {"simulator"} ELSE {})
                              \cup (IF isConnected THEN {"link"} ELSE {}) ]
        sim == IF mwDeveloperMode THEN updateCommand(w.simulator, sent)
               ELSE w.simulator
        saved == saveRecordingState(isRecording,
                     [ currentRecording |-> w.currentRecording,
                       undoHistory |-> w.undoHistory,
                       redoHistory |-> w.redoHistory ])
    IN  IF isRecording
        THEN [ lastDispatch |-> call,
               simulator |-> sim,
               undoHistory |-> saved.undoHistory,
               redoHistory |-> saved.redoHistory,
               currentRecording |->
                   Append(saved.currentRecording,
                          RecordedCommand(recordingElapsed, command.type,
                                          command)) ]
        ELSE [w EXCEPT !.lastDispatch = call, !.simulator = sim]

\* MainWindow::executeCommand(command) on the dispatcher state w
executeCommandOn(w, command) ==
    LET sent == compensatedCommand(robotConfig, command)
        call == [ command |-> command,
                  sent |-> sent,
                  targets |-> IF mwDeveloperMode THEN {"simulator"}
                              ELSE IF isConnected THEN {"link"} ELSE {} ]
        sim == IF mwDeveloperMode THEN updateCommand(w.simulator, sent)
               ELSE w.simulator
        saved == saveRecordingState(isRecording,
                     [ currentRecording |-> w.currentRecording,
                       undoHistory |-> w.undoHistory,
                       redoHistory |-> w.redoHistory ])
    IN  IF isRecording
        THEN [ lastDispatch |-> call,
               simulator |-> sim,
               undoHistory |-> saved.undoHistory,
               redoHistory |-> saved.redoHistory,
               currentRecording |->
                   Append(saved.currentRecording,
                          RecordedCommand(recordingElapsed, command.type,
                                          command)) ]
        ELSE [w EXCEPT !.lastDispatch = call, !.simulator = sim]

SetDispatcher(w) ==
    /\ lastDispatch' = w.lastDispatch
    /\ currentRecording' = w.currentRecording
    /\ undoHistory' = w.undoHistory
    /\ redoHistory' = w.redoHistory
    /\ simulator' = w.simulator

\* processKeyCommand: a key event dispatches one command of the set.
executeCommandFrom(commands, limit) ==
    /\ dispatched < limit
    /\ \E command \in commands :
          SetDispatcher(executeCommandOn(Dispatcher, command))
    /\ dispatched' = dispatched + 1
    /\ UNCHANGED << robotConfig, mwDeveloperMode, isConnected, isRecording,
                    recordingElapsed, recordings, simTicks >>
    /\ UNCHANGED pbVars
    /\ UNCHANGED pressedKeys
    /\ UNCHANGED bleVars
    /\ UNCHANGED calVars

executeCommand == executeCommandFrom(Commands, MaxDispatch)

\* The recording buffer with its undo and redo stacks.
History ==
    [ currentRecording |-> currentRecording, undoHistory |-> undoHistory,
      redoHistory |-> redoHistory ]

SetHistory(h) ==
    /\ currentRecording' = h.currentRecording
    /\ undoHistory' = h.undoHistory
    /\ redoHistory' = h.redoHistory

Back(stack) == stack[Len(stack)]
PopBack(stack) == SubSeq(stack, 1, Len(stack) - 1)

\* MainWindow::undoLastAction on the history h
undoLastActionOn(recording, h) ==
    IF h.undoHistory # << >> /\ recording
    THEN [ redoHistory |-> Append(h.redoHistory, h.currentRecording),
           currentRecording |-> Back(h.undoHistory),
           undoHistory |-> PopBack(h.undoHistory) ]
    ELSE h

\* redo that drops the current buffer instead of pushing it for undo
redoLastActionOn_NoPush(recording, h) ==
    IF h.redoHistory # << >> /\ recording
    THEN [ undoHistory |-> h.undoHistory,
           currentRecording |-> Back(h.redoHistory),
           redoHistory |-> PopBack(h.redoHistory) ]
    ELSE h

\* MainWindow::redoLastAction on the history h
redoLastActionOn(recording, h) ==
    IF h.redoHistory # << >> /\ recording
    THEN [ undoHistory |-> Append(h.undoHistory, h.currentRecording),
           currentRecording |-> Back(h.redoHistory),
           redoHistory |-> PopBack(h.redoHistory) ]
    ELSE h

undoLastAction ==
    /\ SetHistory(undoLastActionOn(isRecording, History))
    /\ UNCHANGED << robotConfig, mwDeveloperMode, isConnected, isRecording,
                    recordingElapsed, lastDispatch, dispatched,
                    recordings >>
    /\ UNCHANGED pbVars
    /\ UNCHANGED simVars
    /\ UNCHANGED pressedKeys
    /\ UNCHANGED bleVars
    /\ UNCHANGED calVars

redoLastAction ==
    /\ SetHistory(redoLastActionOn(isRecording, History))
    /\ UNCHANGED << robotConfig, mwDeveloperMode, isConnected, isRecording,
                    recordingElapsed, lastDispatch, dispatched,
                    recordings >>
    /\ UNCHANGED pbVars
    /\ UNCHANGED simVars
    /\ UNCHANGED pressedKeys
    /\ UNCHANGED bleVars
    /\ UNCHANGED calVars

\* Live operation without a recording session (RecordSpec has those).
DispatchNext ==
    \/ HubConnectionChanged
    \/ toggleDeveloperMode
    \/ AcceptConfigDialog
    \/ executeCommand

DispatchInit == CalInit /\ MwInit

DispatchSpec == DispatchInit /\ [][DispatchNext]_vars

\* The commands of the keys held during a recording session (W, D, Q) and
\* the configurations it runs under (defaults, the documented calibration).
KeyCommands ==
    { DriveCommand(100000, 0), DriveCommand(0, 100000),
      ArmCommand("arm1", 200000) }

RecordConfigs ==
    { DefaultConfig,
      Validity(CalibrationValues(1000, 980, 1000, 300), TRUE, "stamped", 90000) }

executeKeyCommand == executeCommandFrom(KeyCommands, MaxDispatch)

\* A recording session of a main window that is already set up: any of the
\* configurations, either target (or none), keys and the undo/redo shortcuts.
RecordInit ==
    /\ CalInit
    /\ robotConfig \in RecordConfigs
    /\ mwDeveloperMode \in BOOLEAN
    /\ isConnected \in BOOLEAN
    /\ isRecording = FALSE
    /\ currentRecording = << >>
    /\ undoHistory = << >>
    /\ redoHistory = << >>
    /\ recordingElapsed = 0
    /\ lastDispatch = NoDispatch
    /\ dispatched = 0
    /\ recordings = 0
    /\ PbIdle
    /\ pressedKeys = {}
    /\ BleIdle
    /\ SimIdle

RecordNext ==
    \/ toggleRecording
    \/ RecordingClock
    \/ executeKeyCommand
    \/ undoLastAction
    \/ redoLastAction

RecordSpec == RecordInit /\ [][RecordNext]_vars

\* Long recording sessions: one key held, enough dispatches to fill the undo
\* stack beyond MAX_HISTORY, with recording starts and stops, undo and redo.
executeHeldKey == executeCommandFrom({DriveCommand(100000, 0)}, MaxRecorded)

HistoryNext ==
    \/ toggleRecording
    \/ executeHeldKey
    \/ undoLastAction
    \/ redoLastAction

HistorySpec == Init /\ [][HistoryNext]_vars

\* ------------------------------------------------------------- playback
\* Entries of a saved run file: timestamp, command_type and parameters.
LogCommands == { DriveCommand(100000, 0) }

JsonEntry(timestamp, command) ==
    [ timestamp |-> timestamp, command_type |-> command.type,
      parameters |-> command ]

DrawnEntries ==
    { JsonEntry(t, c) : t \in 0..MaxStamp, c \in LogCommands }

\* The documented log: commands at 0.0 s, 0.5 s, 0.5 s and 1.2 s.
ExampleRun ==
    << JsonEntry(0, DriveCommand(100000, 0)),
       JsonEntry(500, DriveCommand(100000, 0)),
       JsonEntry(500, ArmCommand("arm1", 200000)),
       JsonEntry(1200, DriveCommand(100000, 0)) >>

\* A saved recording whose timestamps fall back (entries of two recording
\* sessions in one buffer).
UnorderedRun ==
    << JsonEntry(0, DriveCommand(100000, 0)),
       JsonEntry(1, DriveCommand(100000, 0)),
       JsonEntry(0, ArmCommand("arm1", 200000)) >>

RunFiles ==
    UNION { [1..n -> DrawnEntries] : n \in 0..MaxLog }
        \cup { ExampleRun, UnorderedRun }

\* Readings of now - playbackStartTime at which the event loop runs.
Instants == 0..(MaxStamp + 1) \cup {499, 500, 1199, 1200}

\* RecordedCommand::fromJson
fromJson(json) ==
    RecordedCommand(json.timestamp, json.command_type, json.parameters)

\* a tick that sends the logged parameters to the target itself
RECURSIVE playDue_DirectSend(_, _, _)
playDue_DirectSend(w, index, out) ==
    IF /\ index < Len(playbackCommands)
       /\ playbackCommands[index + 1].timestamp <= playbackElapsed
    THEN LET command == playbackCommands[index + 1].parameters
             call == [executeCommandOn(w, command).lastDispatch
                         EXCEPT !.sent = command]
             after == [executeCommandOn(w, command) EXCEPT !.lastDispatch = call]
         IN  playDue_DirectSend(after, index + 1,
                   Append(out, [ index |-> index, elapsed |-> playbackElapsed,
                                 call |-> call ]))
    ELSE [ w |-> w, index |-> index, out |-> out ]

\* The while loop of the playbackTimer lambda, lines 761-765: the dispatcher
\* state, the cursor and the calls made when the loop ends.
RECURSIVE playDue(_, _, _)
playDue(w, index, out) ==
    IF /\ index < Len(playbackCommands)
       /\ playbackCommands[index + 1].timestamp <= playbackElapsed
    THEN LET after == executeCommandOn(w, playbackCommands[index + 1].parameters)
         IN  playDue(after, index + 1,
                     Append(out, [ index |-> index, elapsed |-> playbackElapsed,
                                   call |-> after.lastDispatch ]))
    ELSE [ w |-> w, index |-> index, out |-> out ]

\* a cursor that is past the end only beyond the last index
playbackFinished_OffByOne(index) == index > Len(playbackCommands)

\* line 767: the cursor has reached the end of the log
playbackFinished(index) == index >= Len(playbackCommands)

\* a playbackRun that loads the requested run even while one is playing
playbackRun_Unguarded ==
    /\ playbacks < MaxPlaybacks
    /\ playbacks' = playbacks + 1
    /\ \E file \in RunFiles :
          /\ playbackCommands' = [i \in 1..Len(file) |-> fromJson(file[i])]
          /\ IF file = << >>
             THEN /\ lastStatus' = "No commands to play back"
                  /\ UNCHANGED << isPlayingBack, playbackIndex, playbackTimer,
                                  playbackElapsed, played, playbackReports >>
             ELSE /\ lastStatus' = "Starting playback"
                  /\ playbackIndex' = 0
                  /\ playbackElapsed' = 0
                  /\ isPlayingBack' = TRUE
                  /\ playbackTimer' = TRUE
                  /\ played' = << >>
                  /\ playbackReports' = [completed |-> 0, indexError |-> 0]
    /\ UNCHANGED << robotConfig, mwDeveloperMode, isConnected, isRecording,
                    currentRecording, undoHistory, redoHistory, recordingElapsed,
                    lastDispatch, dispatched, recordings >>
    /\ UNCHANGED simVars
    /\ UNCHANGED pressedKeys
    /\ UNCHANGED bleVars
    /\ UNCHANGED calVars

\* a start that leaves the cursor where the previous playback ended
playbackRun_KeepsCursor ==
    /\ IF isPlayingBack
       THEN /\ lastStatus' = "Already playing back a run"
            /\ UNCHANGED << isPlayingBack, playbackCommands, playbackIndex,
                            playbackTimer, playbackElapsed, played,
                            playbackReports, playbacks >>
       ELSE /\ playbacks < MaxPlaybacks
            /\ playbacks' = playbacks + 1
            /\ \E file \in RunFiles :
                  /\ playbackCommands' =
                        [i \in 1..Len(file) |-> fromJson(file[i])]
                  /\ IF file = << >>
                     THEN /\ lastStatus' = "No commands to play back"
                          /\ UNCHANGED << isPlayingBack, playbackIndex,
                                          playbackTimer, playbackElapsed,
                                          played, playbackReports >>
                     ELSE /\ lastStatus' = "Starting playback"
                          /\ playbackIndex' = playbackIndex
                          /\ playbackElapsed' = 0
                          /\ isPlayingBack' = TRUE
                          /\ playbackTimer' = TRUE
                          /\ played' = << >>
                          /\ playbackReports' =
                                [completed |-> 0, indexError |-> 0]
    /\ UNCHANGED << robotConfig, mwDeveloperMode, isConnected, isRecording,
                    currentRecording, undoHistory, redoHistory, recordingElapsed,
                    lastDispatch, dispatched, recordings >>
    /\ UNCHANGED simVars
    /\ UNCHANGED pressedKeys
    /\ UNCHANGED bleVars
    /\ UNCHANGED calVars

\* a playback that starts at the second entry
playbackRun_CursorAtOne ==
    /\ IF isPlayingBack
       THEN /\ lastStatus' = "Already playing back a run"
            /\ UNCHANGED << isPlayingBack, playbackCommands, playbackIndex,
                            playbackTimer, playbackElapsed, played,
                            playbackReports, playbacks >>
       ELSE /\ playbacks < MaxPlaybacks
            /\ playbacks' = playbacks + 1
            /\ \E file \in RunFiles :
                  /\ playbackCommands' =
                        [i \in 1..Len(file) |-> fromJson(file[i])]
                  /\ IF file = << >>
                     THEN /\ lastStatus' = "No commands to play back"
                          /\ UNCHANGED << isPlayingBack, playbackIndex,
                                          playbackTimer, playbackElapsed,
                                          played, playbackReports >>
                     ELSE /\ lastStatus' = "Starting playback"
                          /\ playbackIndex' = 1
                          /\ playbackElapsed' = 0
                          /\ isPlayingBack' = TRUE
                          /\ playbackTimer' = TRUE
                          /\ played' = << >>
                          /\ playbackReports' =
                                [completed |-> 0, indexError |-> 0]
    /\ UNCHANGED << robotConfig, mwDeveloperMode, isConnected, isRecording,
                    currentRecording, undoHistory, redoHistory, recordingElapsed,
                    lastDispatch, dispatched, recordings >>
    /\ UNCHANGED simVars
    /\ UNCHANGED pressedKeys
    /\ UNCHANGED bleVars
    /\ UNCHANGED calVars

\* MainWindow::playbackRun(runData)
playbackRun ==
    /\ IF isPlayingBack
       THEN /\ lastStatus' = "Already playing back a run"
            /\ UNCHANGED << isPlayingBack, playbackCommands, playbackIndex,
                            playbackTimer, playbackElapsed, played,
                            playbackReports, playbacks >>
       ELSE /\ playbacks < MaxPlaybacks
            /\ playbacks' = playbacks + 1
            /\ \E file \in RunFiles :
                  /\ playbackCommands' =
                        [i \in 1..Len(file) |-> fromJson(file[i])]
                  /\ IF file = << >>
                     THEN /\ lastStatus' = "No commands to play back"
                          /\ UNCHANGED << isPlayingBack, playbackIndex,
                                          playbackTimer, playbackElapsed,
                                          played, playbackReports >>
                     ELSE /\ lastStatus' = "Starting playback"
                          /\ playbackIndex' = 0
                          /\ playbackElapsed' = 0
                          /\ isPlayingBack' = TRUE
                          /\ playbackTimer' = TRUE
                          /\ played' = << >>
                          /\ playbackReports' =
                                [completed |-> 0, indexError |-> 0]
    /\ UNCHANGED << robotConfig, mwDeveloperMode, isConnected, isRecording,
                    currentRecording, undoHistory, redoHistory, recordingElapsed,
                    lastDispatch, dispatched, recordings >>
    /\ UNCHANGED simVars
    /\ UNCHANGED pressedKeys
    /\ UNCHANGED bleVars
    /\ UNCHANGED calVars

\* Wall-clock time passes while the playback timer runs.
PlaybackClock ==
    /\ playbackTimer
    /\ \E t \in Instants :
          /\ t > playbackElapsed
          /\ playbackElapsed' = t
    /\ UNCHANGED << isPlayingBack, playbackCommands, playbackIndex,
                    playbackTimer, played, playbackReports, playbacks,
                    lastStatus >>
    /\ UNCHANGED << robotConfig, mwDeveloperMode, isConnected, isRecording,
                    currentRecording, undoHistory, redoHistory, recordingElapsed,
                    lastDispatch, dispatched, recordings >>
    /\ UNCHANGED simVars
    /\ UNCHANGED pressedKeys
    /\ UNCHANGED bleVars
    /\ UNCHANGED calVars

\* The playbackTimer timeout lambda of setupConnections.
PlaybackTick ==
    /\ playbackTimer
    /\ IF ~isPlayingBack \/ playbackCommands = << >>
       THEN /\ playbackTimer' = FALSE
            /\ UNCHANGED << isPlayingBack, playbackIndex, played,
                            playbackReports, lastDispatch, currentRecording,
                            undoHistory, redoHistory, lastStatus,
                            simulator >>
       ELSE IF playbackIndex < 0 \/ playbackIndex >= Len(playbackCommands)
       THEN /\ isPlayingBack' = FALSE
            /\ playbackTimer' = FALSE
            /\ playbackReports' =
                  [playbackReports EXCEPT !.indexError = @ + 1]
            /\ lastStatus' = "Playback stopped due to index error"
            /\ UNCHANGED << playbackIndex, played, lastDispatch,
                            currentRecording, undoHistory, redoHistory,
                            simulator >>
       ELSE LET r == playDue(Dispatcher, playbackIndex, << >>)
            IN  /\ SetDispatcher(r.w)
                /\ playbackIndex' = r.index
                /\ played' = played \o r.out
                /\ IF playbackFinished(r.index)
                   THEN /\ isPlayingBack' = FALSE
                        /\ playbackTimer' = FALSE
                        /\ playbackReports' =
                              [playbackReports EXCEPT !.completed = @ + 1]
                        /\ lastStatus' = "Playback completed"
                   ELSE UNCHANGED << isPlayingBack, playbackTimer,
                                     playbackReports, lastStatus >>
    /\ UNCHANGED << playbackCommands, playbackElapsed, playbacks >>
    /\ UNCHANGED << robotConfig, mwDeveloperMode, isConnected, isRecording,
                    recordingElapsed, dispatched, recordings, simTicks >>
    /\ UNCHANGED pressedKeys
    /\ UNCHANGED bleVars
    /\ UNCHANGED calVars

\* Configurations in force during a playback: none, and two calibrations.
PlaybackConfigs ==
    { DefaultConfig,
      Validity(CalibrationValues(1000, 980, 950, 500), TRUE, "stamped", 90000),
      Validity(CalibrationValues(1000, 980, 1000, 300), TRUE, "stamped", 90000) }

ChangeCalibration == AcceptConfigDialogFrom(PlaybackConfigs)

PlaybackInit ==
    /\ CalInit
    /\ robotConfig \in PlaybackConfigs
    /\ mwDeveloperMode = TRUE
    /\ isConnected = FALSE
    /\ isRecording = FALSE
    /\ currentRecording = << >>
    /\ undoHistory = << >>
    /\ redoHistory = << >>
    /\ recordingElapsed = 0
    /\ lastDispatch = NoDispatch
    /\ dispatched = 0
    /\ recordings = 0
    /\ PbIdle
    /\ pressedKeys = {}
    /\ BleIdle
    /\ SimIdle

PlaybackNext ==
    \/ ChangeCalibration
    \/ playbackRun
    \/ PlaybackClock
    \/ PlaybackTick

\* Qt's event loop keeps serving the playback timer and time keeps passing.
PlaybackSpec ==
    /\ PlaybackInit
    /\ [][PlaybackNext]_vars
    /\ WF_vars(PlaybackClock)
    /\ WF_vars(PlaybackTick)

\* finalizeCalibration as a function of the results list: the manager is
\* about to process StepFinalization with a results list drawn from the
\* CalibrationResult records of at most MaxResults entries.
Confidences == {0, 600, 900}

DrawnResult ==
    [ success : BOOLEAN,
      stepName : {"Motor Response Time"},
      measuredValue : {0},
      confidence : Confidences ]

DrawnResults == UNION { [1..n -> DrawnResult] : n \in 0..MaxResults }

FinalizeInit ==
    /\ configured = TRUE
    /\ isDeveloperMode \in BOOLEAN
    /\ linkConnected \in BOOLEAN
    /\ calibrationRunning = TRUE
    /\ currentStep = StepFinalization
    /\ currentRetry = 0
    /\ calibrationResults \in DrawnResults
    /\ calibratedConfig = DefaultConfig
    /\ stepTimer = 0
    /\ timeoutTimer = NoTimer
    /\ singleShots = {}
    /\ currentConfig = DefaultConfig
    /\ emitted = [ZeroEmitted EXCEPT !["calibrationStarted"] = 1]
    /\ lastFailure = ""
    /\ sentCount = 0
    /\ lastSent = NoCommand
    /\ simSentCount = 0
    /\ probed = {}
    /\ lastOp = "nextStep"
    /\ run = [started |-> TRUE, cancelled |-> FALSE,
              currentConfig |-> DefaultConfig]
    /\ starts = 1
    /\ linkChanges = 0
    /\ MwIdle

FinalizeNext ==
    \/ LinkChange
    \/ StartCalibration
    \/ StopCalibration
    \/ StepTimerFire
    \/ WatchdogFire
    \/ SingleShotFire
    \/ Tick

FinalizeSpec == FinalizeInit /\ [][FinalizeNext]_vars

\* ------------------------------------------------------------------ claims
ManagerState ==
    << calibrationRunning, currentStep, currentRetry, calibrationResults,
       calibratedConfig, stepTimer, timeoutTimer, singleShots, currentConfig,
       sentCount, lastSent, simSentCount >>

FailedOnce == [emitted EXCEPT !["calibrationFailed"] = @ + 1]

\* ------------------------------------------------- the simulator at work
\* The simulator's 20 ms timer times out: updateSimulation().
SimulatorTimeout(limit) ==
    /\ simTicks < limit
    /\ simTicks' = simTicks + 1
    /\ simulator' = updateSimulation(simulator)
    /\ UNCHANGED << robotConfig, mwDeveloperMode, isConnected, isRecording,
                    currentRecording, undoHistory, redoHistory, recordingElapsed,
                    lastDispatch, dispatched, recordings >>
    /\ UNCHANGED pbVars
    /\ UNCHANGED pressedKeys
    /\ UNCHANGED bleVars
    /\ UNCHANGED calVars

SimTick == SimulatorTimeout(MaxSimTicks)

\* MainWindow::resetSimulator, the slot of the reset button
resetSimulator ==
    /\ simulator' = resetSimulation(simulator)
    /\ UNCHANGED << robotConfig, mwDeveloperMode, isConnected, isRecording,
                    currentRecording, undoHistory, redoHistory, recordingElapsed,
                    lastDispatch, dispatched, recordings, simTicks >>
    /\ UNCHANGED pbVars
    /\ UNCHANGED pressedKeys
    /\ UNCHANGED bleVars
    /\ UNCHANGED calVars

\* Sizes the layout gives the widget: the minimum size and a larger one.
WidgetSizes ==
    { [width |-> MinimumWidth, height |-> MinimumHeight],
      [width |-> 640000, height |-> 480000] }

\* The window is resized: the widget receives a resizeEvent.
ResizeWidget ==
    /\ \E size \in WidgetSizes :
          /\ size # [width |-> simulator.width, height |-> simulator.height]
          /\ simulator' = resizeEvent(simulator, size.width, size.height)
    /\ UNCHANGED << robotConfig, mwDeveloperMode, isConnected, isRecording,
                    currentRecording, undoHistory, redoHistory, recordingElapsed,
                    lastDispatch, dispatched, recordings, simTicks >>
    /\ UNCHANGED pbVars
    /\ UNCHANGED pressedKeys
    /\ UNCHANGED bleVars
    /\ UNCHANGED calVars

\* A main window in developer mode, nothing recorded or played, with the
\* simulator as constructed in a widget of one of the sizes.
DeveloperInit(sizes) ==
    /\ CalInit
    /\ robotConfig = DefaultConfig
    /\ mwDeveloperMode = TRUE
    /\ isConnected = FALSE
    /\ isRecording = FALSE
    /\ currentRecording = << >>
    /\ undoHistory = << >>
    /\ redoHistory = << >>
    /\ recordingElapsed = 0
    /\ lastDispatch = NoDispatch
    /\ dispatched = 0
    /\ recordings = 0
    /\ PbIdle
    /\ pressedKeys = {}
    /\ BleIdle
    /\ simulator \in { NewSimulator(size.width, size.height) : size \in sizes }
    /\ simTicks = 0

\* processKeyCommand for W, S+A, D and SPACE
DriveKeyCommands ==
    { DriveCommand(200000, 0), DriveCommand(0 - 200000, 0 - 100000),
      DriveCommand(0, 100000), DriveCommand(0, 0) }

pressDriveKey == executeCommandFrom(DriveKeyCommands, MaxSimCommands)

PhysicsInit == DeveloperInit(WidgetSizes)

PhysicsNext ==
    \/ pressDriveKey
    \/ SimTick
    \/ resetSimulator
    \/ ResizeWidget

\* Driving the simulated robot: keys, timer ticks, resets and resizes.
PhysicsSpec == PhysicsInit /\ [][PhysicsNext]_vars

\* Every motor of the simulator is at rest and has no target.
AtRest ==
    /\ simulator.targetSpd = 0 /\ simulator.targetTurn = 0
    /\ simulator.targetArm1Spd = 0 /\ simulator.targetArm2Spd = 0
    /\ simulator.actualSpd = 0 /\ simulator.actualTurn = 0
    /\ simulator.actualArm1Spd = 0 /\ simulator.actualArm2Spd = 0
    /\ simulator.speedAccel = 0 /\ simulator.turnAccel = 0
    /\ simulator.arm1Accel = 0 /\ simulator.arm2Accel = 0

\* processKeyCommand for W, S, D, W+A, Q and F
MotorKeyCommands ==
    { DriveCommand(200000, 0), DriveCommand(0 - 200000, 0),
      DriveCommand(0, 100000), DriveCommand(200000, 0 - 100000),
      ArmCommand("arm1", 200000), ArmCommand("arm2", 0 - 200000) }

\* A key is pressed while the robot is at rest and held.
holdKeyFromRest == AtRest /\ executeCommandFrom(MotorKeyCommands, MaxSimCommands)

\* SPACE is pressed: the stop command.
pressSpace == executeCommandFrom({ DriveCommand(0, 0) }, MaxSimCommands)

MotorInit == DeveloperInit({ [width |-> MinimumWidth, height |-> MinimumHeight] })

MotorNext ==
    \/ holdKeyFromRest
    \/ pressSpace
    \/ SimTick

\* One target given at rest and held, then possibly the stop command.
MotorSpec == MotorInit /\ [][MotorNext]_vars

\* processKeyCommand for Q, E, R and F
ArmKeyCommands ==
    { ArmCommand("arm1", 200000), ArmCommand("arm1", 0 - 200000),
      ArmCommand("arm2", 200000), ArmCommand("arm2", 0 - 200000) }

pressArmKey == executeCommandFrom(ArmKeyCommands, MaxArmCommands)

ArmTick == SimulatorTimeout(MaxArmTicks)

ArmInit == DeveloperInit({ [width |-> MinimumWidth, height |-> MinimumHeight] })

ArmNext ==
    \/ pressArmKey
    \/ ArmTick

\* An arm key held for up to two seconds of simulated time.
ArmSpec == ArmInit /\ [][ArmNext]_vars

\* ------------------------------------------- clearing the calibration
\* A robot with its own geometry and ports and every calibration field set.
CalibratedRobot ==
    [ axleTrack |-> 120000,
      wheelDiameter |-> 62400,
      leftMotorPort |-> "B",
      rightMotorPort |-> "A",
      arm1MotorPort |-> "D",
      arm2MotorPort |-> "C",
      straightSpeed |-> 400000,
      straightAcceleration |-> 200000,
      turnRate |-> 150000,
      turnAcceleration |-> 250000,
      isCalibrated |-> TRUE,
      calibrationDate |-> "stamped",
      leftMotorDelay |-> 25000,
      rightMotorDelay |-> 25000,
      arm1MotorDelay |-> 25000,
      arm2MotorDelay |-> 25000,
      gyroscopeDrift |-> 2,
      gyroscopeDelay |-> 15000,
      leftMotorSpeedFactor |-> Scale,
      rightMotorSpeedFactor |-> 980,
      turnAccuracyFactor |-> 950,
      straightDriftCorrection |-> 500,
      motorResponseTime |-> 25000,
      calibrationQuality |-> 90000 ]

\* Configs the settings file hands over before the dialog is opened.
ClearConfigs ==
    { DefaultConfig, CalibratedRobot,
      Validity(CalibrationValues(1000, 980, 1000, 300), TRUE, "", 90000) }

\* MainWindow::openConfigDialog: ConfigDialog dialog(this, robotConfig)
OpenDialogOnConfig ==
    /\ ~configured
    /\ configured' = TRUE
    /\ currentConfig' = robotConfig
    /\ isDeveloperMode' = mwDeveloperMode
    /\ linkConnected' = isConnected
    /\ lastOp' = "openConfigDialog"
    /\ UNCHANGED mwVars
    /\ UNCHANGED << calibrationRunning, currentStep, currentRetry,
                    calibrationResults, calibratedConfig, stepTimer,
                    timeoutTimer, singleShots, emitted, lastFailure, sentCount,
                    lastSent, simSentCount, probed, run, starts, linkChanges >>

\* ConfigDialog::clearCalibrationData answered with Yes
clearCalibrationData ==
    /\ configured
    /\ currentConfig' = clearCalibration(currentConfig)
    /\ lastOp' = "clearCalibrationData"
    /\ UNCHANGED mwVars
    /\ UNCHANGED << configured, isDeveloperMode, linkConnected,
                    calibrationRunning, currentStep, currentRetry,
                    calibrationResults, calibratedConfig, stepTimer,
                    timeoutTimer, singleShots, emitted, lastFailure, sentCount,
                    lastSent, simSentCount, probed, run, starts, linkChanges >>

\* The dialog is closed with OK (robotConfig = dialog.getConfig()) or with
\* Cancel, the spin boxes and port selectors left as they were.  The dialog
\* is a local of openConfigDialog and the manager is its child: both are
\* destroyed on return, with the manager's two timers and the single shots
\* that have the manager as context.  The next dialog has a new manager.
CloseDialog ==
    /\ configured
    /\ configured' = FALSE
    /\ \E accepted \in BOOLEAN :
          /\ robotConfig' = IF accepted THEN currentConfig ELSE robotConfig
          /\ lastOp' = IF accepted THEN "accepted" ELSE "rejected"
    /\ calibrationRunning' = FALSE
    /\ currentStep' = StepNotStarted
    /\ currentRetry' = 0
    /\ calibrationResults' = << >>
    /\ calibratedConfig' = DefaultConfig
    /\ stepTimer' = NoTimer
    /\ timeoutTimer' = NoTimer
    /\ singleShots' = {}
    /\ UNCHANGED << mwDeveloperMode, isConnected, isRecording, currentRecording,
                    undoHistory, redoHistory, recordingElapsed, lastDispatch,
                    dispatched, recordings >>
    /\ UNCHANGED pbVars
    /\ UNCHANGED simVars
    /\ UNCHANGED pressedKeys
    /\ UNCHANGED bleVars
    /\ UNCHANGED << isDeveloperMode, linkConnected, currentConfig, emitted,
                    lastFailure, sentCount, lastSent, simSentCount, probed, run,
                    starts, linkChanges >>

ClearInit ==
    /\ CalInit
    /\ robotConfig \in ClearConfigs
    /\ mwDeveloperMode \in BOOLEAN
    /\ isConnected \in BOOLEAN
    /\ isRecording = FALSE
    /\ currentRecording = << >>
    /\ undoHistory = << >>
    /\ redoHistory = << >>
    /\ recordingElapsed = 0
    /\ lastDispatch = NoDispatch
    /\ dispatched = 0
    /\ recordings = 0
    /\ PbIdle
    /\ pressedKeys = {}
    /\ BleIdle
    /\ SimIdle

ClearNext ==
    \/ OpenDialogOnConfig
    \/ clearCalibrationData
    \/ CloseDialog
    \/ executeCommand

\* The configuration dialog used to clear the calibration, and dispatch.
ClearSpec == ClearInit /\ [][ClearNext]_vars

\* --------------------------------------------- calibration of a real robot
\* The dialog opened while the main window is not in developer mode.
OpenRobotDialog == OpenConfigDialogIn({FALSE})

ProbeNext ==
    \/ OpenRobotDialog
    \/ LinkChange
    \/ StartCalibration
    \/ StopCalibration
    \/ StepTimerFire
    \/ WatchdogFire
    \/ SingleShotFire
    \/ Tick
    \/ CloseDialog

\* Calibration runs against the hardware link, with the dialog closed at any
\* moment.  Qt's event loop serves every due timer and time keeps passing.
ProbeSpec ==
    /\ Init
    /\ [][ProbeNext]_vars
    /\ WF_vars(Tick)
    /\ WF_vars(StepTimerFire)
    /\ WF_vars(WatchdogFire)
    /\ WF_vars(SingleShotFire)

\* ------------------------------------------------------ keyboard driving
\* The keys keyPressEvent and keyReleaseEvent hand to processKeyCommand.
Keys == { "W", "A", "S", "D", "SPACE", "Q", "E", "R", "F" }

\* speed and turn rate summed over the held drive keys
KeySpeed(keys) ==
    (IF "W" \in keys THEN 200000 ELSE 0) - (IF "S" \in keys THEN 200000 ELSE 0)

KeyTurnRate(keys) ==
    (IF "D" \in keys THEN 100000 ELSE 0) - (IF "A" \in keys THEN 100000 ELSE 0)

\* the arm command of a pair of keys: the second key wins over the first
KeyArmCommand(type, up, down, keys) ==
    ArmCommand(type, IF down \in keys THEN 0 - 200000
                     ELSE IF up \in keys THEN 200000 ELSE 0)

\* MainWindow::processKeyCommand of src/cpp(old): the command built for key
\* from the set of keys held
processKeyCommand(key, keys) ==
    IF key \in { "W", "A", "S", "D", "SPACE" }
    THEN IF "SPACE" \in keys
         THEN DriveCommand(0, 0)
         ELSE DriveCommand(KeySpeed(keys), KeyTurnRate(keys))
    ELSE IF key \in { "Q", "E" }
    THEN KeyArmCommand("arm1", "Q", "E", keys)
    ELSE KeyArmCommand("arm2", "R", "F", keys)

\* MainWindow::processKeyCommand of src/cpp: Space resets the speed only
processKeyCommandCpp(key, keys) ==
    IF key \in { "W", "A", "S", "D", "SPACE" }
    THEN DriveCommand(IF "SPACE" \in keys THEN 0 ELSE KeySpeed(keys),
                      KeyTurnRate(keys))
    ELSE IF key \in { "Q", "E" }
    THEN KeyArmCommand("arm1", "Q", "E", keys)
    ELSE KeyArmCommand("arm2", "R", "F", keys)

\* MainWindow::executeCommand of src/cpp: no compensation, no undo snapshot
executeCommandCppOn(w, command) ==
    [w EXCEPT
        !.lastDispatch =
            [ command |-> command,
              sent |-> command,
              targets |-> IF mwDeveloperMode THEN {"simulator"}
                          ELSE IF isConnected THEN {"link"} ELSE {} ],
        !.simulator = IF mwDeveloperMode THEN updateCommand(@, command) ELSE @,
        !.currentRecording =
            IF isRecording
            THEN Append(@, RecordedCommand(recordingElapsed, command.type,
                                           command))
            ELSE @]

\* A key goes down or up: held is the set of keys afterwards and w the
\* window after executeCommand(processKeyCommand()).
KeyEvent(held, w) ==
    /\ dispatched < MaxKeyEvents
    /\ dispatched' = dispatched + 1
    /\ pressedKeys' = held
    /\ UNCHANGED bleVars
    /\ SetDispatcher(w)
    /\ UNCHANGED << robotConfig, mwDeveloperMode, isConnected, isRecording,
                    recordingElapsed, recordings, simTicks >>
    /\ UNCHANGED pbVars
    /\ UNCHANGED calVars

\* MainWindow::keyPressEvent and keyReleaseEvent of src/cpp
keyPressEventCpp ==
    \E key \in Keys \ pressedKeys :
        LET held == pressedKeys \cup {key}
        IN  KeyEvent(held, executeCommandCppOn(Dispatcher,
                               processKeyCommandCpp(key, held)))

keyReleaseEventCpp ==
    \E key \in pressedKeys :
        LET held == pressedKeys \ {key}
        IN  KeyEvent(held, executeCommandCppOn(Dispatcher,
                               processKeyCommandCpp(key, held)))

\* MainWindow::keyPressEvent and keyReleaseEvent of src/cpp(old)
keyPressEvent ==
    \E key \in Keys \ pressedKeys :
        LET held == pressedKeys \cup {key}
        IN  KeyEvent(held, executeCommandOn(Dispatcher,
                               processKeyCommand(key, held)))

keyReleaseEvent ==
    \E key \in pressedKeys :
        LET held == pressedKeys \ {key}
        IN  KeyEvent(held, executeCommandOn(Dispatcher,
                               processKeyCommand(key, held)))

KeyInit == DeveloperInit({ [width |-> MinimumWidth, height |-> MinimumHeight] })

KeyNextCpp ==
    \/ keyPressEventCpp
    \/ keyReleaseEventCpp

\* Keyboard driving with the main window of src/cpp.
KeySpecCpp == KeyInit /\ [][KeyNextCpp]_vars

KeyNext ==
    \/ keyPressEvent
    \/ keyReleaseEvent

\* Keyboard driving with the main window of src/cpp(old).
KeySpec == KeyInit /\ [][KeyNext]_vars

\* ------------------------------------------- saving and reloading a log
\* A QVariant of a parameter hash: the type it holds and the value.
QVariant(kind, value) == [kind |-> kind, value |-> value]

\* A QJsonValue: isString(), isDouble() or isBool(), and the value.
QJsonValue(json, value) == [json |-> json, value |-> value]

\* a toJson without the QMetaType::Int branch
toJson_DropsInt(cmd) ==
    LET kept == { k \in DOMAIN cmd.parameters :
                      cmd.parameters[k].kind \in {"QString", "Double", "Bool"} }
    IN  [ timestamp |-> cmd.timestamp,
          command_type |-> cmd.commandType,
          parameters |->
              [ k \in kept |->
                  LET v == cmd.parameters[k]
                  IN  IF v.kind = "QString" THEN QJsonValue("string", v.value)
                      ELSE IF v.kind = "Double" THEN QJsonValue("double", v.value)
                      ELSE QJsonValue("bool", v.value) ] ]

\* RecordedCommand::toJson: parameters of another type are left out
toJson(cmd) ==
    LET kept == { k \in DOMAIN cmd.parameters :
                      cmd.parameters[k].kind
                          \in {"QString", "Int", "Double", "Bool"} }
    IN  [ timestamp |-> cmd.timestamp,
          command_type |-> cmd.commandType,
          parameters |->
              [ k \in kept |->
                  LET v == cmd.parameters[k]
                  IN  IF v.kind = "QString" THEN QJsonValue("string", v.value)
                      ELSE IF v.kind \in {"Int", "Double"}
                      THEN QJsonValue("double", v.value)
                      ELSE QJsonValue("bool", v.value) ] ]

\* RecordedCommand::fromJson on the values toJson writes: a JSON number
\* comes back as a double, values of another JSON type are left out
fromJsonValues(json) ==
    LET kept == { k \in DOMAIN json.parameters :
                      json.parameters[k].json \in {"string", "double", "bool"} }
    IN  RecordedCommand(
            json.timestamp, json.command_type,
            [ k \in kept |->
                LET v == json.parameters[k]
                IN  IF v.json = "string" THEN QVariant("QString", v.value)
                    ELSE IF v.json = "double" THEN QVariant("Double", v.value)
                    ELSE QVariant("Bool", v.value) ])

\* QVariant::operator==: numbers are compared by value, int against double
\* included; other values are equal when type and value are
VariantEqual(a, b) ==
    IF a.kind \in {"Int", "Double"} /\ b.kind \in {"Int", "Double"}
    THEN a.value = b.value
    ELSE a = b

\* RecordedCommand::operator==
CommandEqual(a, b) ==
    /\ a.timestamp = b.timestamp
    /\ a.commandType = b.commandType
    /\ DOMAIN a.parameters = DOMAIN b.parameters
    /\ \A k \in DOMAIN a.parameters :
           VariantEqual(a.parameters[k], b.parameters[k])

\* Parameter hashes of recorded commands: a key command (ints), a played or
\* compensated command (doubles), an arm command and a command with a flag.
RecordedParameters ==
    { [ type |-> QVariant("QString", "drive"), speed |-> QVariant("Int", 200000),
        turn_rate |-> QVariant("Int", 0 - 100000) ],
      [ type |-> QVariant("QString", "drive"), speed |-> QVariant("Double", 99000),
        turn_rate |-> QVariant("Double", 300) ],
      [ type |-> QVariant("QString", "arm1"), speed |-> QVariant("Int", 200000) ],
      [ type |-> QVariant("QString", "calibrate"),
        enabled |-> QVariant("Bool", TRUE) ] }

RecordedEntries ==
    { RecordedCommand(t, p.type.value, p) :
          t \in 0..MaxStamp, p \in RecordedParameters }

\* saveCurrentRun writes the recording buffer as the "commands" array of a
\* run file and clears the buffer; playbackRun of that file parses the array.
reloadSavedRun ==
    /\ currentRecording # << >>
    /\ ~isRecording
    /\ ~isPlayingBack
    /\ playbacks < MaxPlaybacks
    /\ playbacks' = playbacks + 1
    /\ LET commands == [i \in 1..Len(currentRecording) |->
                            toJson(currentRecording[i])]
       IN  playbackCommands' =
               [i \in 1..Len(commands) |-> fromJsonValues(commands[i])]
    /\ currentRecording' = << >>
    /\ playbackIndex' = 0
    /\ playbackElapsed' = 0
    /\ isPlayingBack' = TRUE
    /\ playbackTimer' = TRUE
    /\ played' = << >>
    /\ playbackReports' = [completed |-> 0, indexError |-> 0]
    /\ lastStatus' = "Starting playback"
    /\ UNCHANGED << robotConfig, mwDeveloperMode, isConnected, isRecording,
                    undoHistory, redoHistory, recordingElapsed, lastDispatch,
                    dispatched, recordings >>
    /\ UNCHANGED simVars
    /\ UNCHANGED pressedKeys
    /\ UNCHANGED bleVars
    /\ UNCHANGED calVars

\* A main window holding a finished recording of up to MaxLog commands.
SerializeInit ==
    /\ CalInit
    /\ robotConfig = DefaultConfig
    /\ mwDeveloperMode = TRUE
    /\ isConnected = FALSE
    /\ isRecording = FALSE
    /\ currentRecording \in UNION { [1..n -> RecordedEntries] : n \in 0..MaxLog }
    /\ undoHistory = << >>
    /\ redoHistory = << >>
    /\ recordingElapsed = 0
    /\ lastDispatch = NoDispatch
    /\ dispatched = 0
    /\ recordings = 0
    /\ PbIdle
    /\ pressedKeys = {}
    /\ BleIdle
    /\ SimIdle

SerializeNext == reloadSavedRun

\* Recordings saved to a run file and loaded back for playback.
SerializeSpec == SerializeInit /\ [][SerializeNext]_vars

\* ------------------------------------------------- the hardware link (BLE)
\* What a BLEController handler leaves alone; it counts as one event.
BleHandled(op) ==
    /\ bleEvents < MaxBleEvents
    /\ bleEvents' = bleEvents + 1
    /\ lastBleOp' = op
    /\ UNCHANGED << robotConfig, mwDeveloperMode, isRecording, currentRecording,
                    undoHistory, redoHistory, recordingElapsed, lastDispatch,
                    dispatched, recordings >>
    /\ UNCHANGED pbVars
    /\ UNCHANGED simVars
    /\ UNCHANGED pressedKeys
    /\ UNCHANGED calVars

\* connectionState = state; emit connectionStateChanged(state), whose slot
\* in the main window sets isConnected = (state == Connected).
SetConnectionState(state) ==
    /\ connectionState' = state
    /\ isConnected' = (state = "Connected")

KeepConnectionState == UNCHANGED << connectionState, isConnected >>

scanForHub ==
    /\ scanning' = TRUE
    /\ BleHandled(IF scanning THEN "scanIgnored" ELSE "scanForHub")
    /\ KeepConnectionState
    /\ UNCHANGED << targetDevice, controller, service >>

\* deviceDiscovered: a device whose name starts with "Pybricks", or another
onDeviceDiscovered ==
    /\ scanning
    /\ \E pybricks \in BOOLEAN : targetDevice' = (targetDevice \/ pybricks)
    /\ BleHandled("onDeviceDiscovered")
    /\ KeepConnectionState
    /\ UNCHANGED << scanning, controller, service >>

\* finished: the discovered devices are searched for a hub once more
onDiscoveryFinished ==
    /\ scanning
    /\ scanning' = FALSE
    /\ \E found \in BOOLEAN : targetDevice' = (targetDevice \/ found)
    /\ BleHandled("onDiscoveryFinished")
    /\ KeepConnectionState
    /\ UNCHANGED << controller, service >>

onDiscoveryError ==
    /\ scanning
    /\ scanning' = FALSE
    /\ BleHandled("onDiscoveryError")
    /\ KeepConnectionState
    /\ UNCHANGED << targetDevice, controller, service >>

\* BLEController::connectToDevice(targetDevice)
connectToDevice ==
    IF connectionState # "Disconnected"
    THEN /\ BleHandled("connectIgnored")
         /\ KeepConnectionState
         /\ UNCHANGED << scanning, targetDevice, controller, service >>
    ELSE /\ SetConnectionState("Connecting")
         /\ controller' = "Connecting"
         /\ BleHandled("connectStarted")
         /\ UNCHANGED << scanning, targetDevice, service >>

connectToHub ==
    IF targetDevice
    THEN connectToDevice
    ELSE /\ BleHandled("noTargetDevice")
         /\ KeepConnectionState
         /\ UNCHANGED << scanning, targetDevice, controller, service >>

disconnectFromHub ==
    IF connectionState = "Disconnected"
    THEN /\ BleHandled("disconnectIgnored")
         /\ KeepConnectionState
         /\ UNCHANGED << scanning, targetDevice, controller, service >>
    ELSE /\ SetConnectionState("Disconnected")
         /\ controller' = IF controller = "none" THEN "none" ELSE "Unconnected"
         /\ BleHandled("disconnectFromHub")
         /\ UNCHANGED << scanning, targetDevice, service >>

\* connected(): the link is up, controller->discoverServices()
onControllerConnected ==
    /\ controller = "Connecting"
    /\ controller' = "Discovering"
    /\ BleHandled("onControllerConnected")
    /\ KeepConnectionState
    /\ UNCHANGED << scanning, targetDevice, service >>

\* disconnected(): the link dropped, or Qt reports the end of a failed attempt
onControllerDisconnected ==
    /\ controller \in {"Discovering", "Discovered", "Failed"}
    /\ controller' = "Unconnected"
    /\ SetConnectionState("Disconnected")
    /\ BleHandled("onControllerDisconnected")
    /\ UNCHANGED << scanning, targetDevice, service >>

\* errorOccurred(error): the handler logs and emits errorOccurred, whose
\* slot MainWindow::onBleError logs.
onControllerError ==
    /\ controller \in {"Connecting", "Discovering", "Discovered"}
    /\ controller' = "Failed"
    /\ BleHandled("onControllerError")
    /\ KeepConnectionState
    /\ UNCHANGED << scanning, targetDevice, service >>

\* discoveryFinished(): connectToService() takes the first service object
\* that can be created and reports an error if there is no service object.
onServiceDiscoveryFinished ==
    /\ controller = "Discovering"
    /\ controller' = "Discovered"
    /\ \E created \in BOOLEAN :
          /\ service' = IF created THEN "Discovering" ELSE service
          /\ BleHandled(IF created THEN "connectToService"
                        ELSE IF service = "none" THEN "noService"
                        ELSE "staleService")
    /\ KeepConnectionState
    /\ UNCHANGED << scanning, targetDevice >>

\* stateChanged(RemoteServiceDiscovered): Connected if the service has the
\* command characteristic, a warning otherwise.
onServiceStateChanged ==
    /\ service = "Discovering"
    /\ service' = "Discovered"
    /\ \E hasCommand \in BOOLEAN :
          IF hasCommand
          THEN /\ SetConnectionState("Connected")
               /\ BleHandled("connected")
          ELSE /\ KeepConnectionState
               /\ BleHandled("noCharacteristic")
    /\ UNCHANGED << scanning, targetDevice, controller >>

BleInit == Init

BleNext ==
    \/ scanForHub
    \/ onDeviceDiscovered
    \/ onDiscoveryFinished
    \/ onDiscoveryError
    \/ connectToHub
    \/ disconnectFromHub
    \/ onControllerConnected
    \/ onControllerDisconnected
    \/ onControllerError
    \/ onServiceDiscoveryFinished
    \/ onServiceStateChanged

\* The hardware link: scans, connection attempts and what Qt reports.
BleSpec == BleInit /\ [][BleNext]_vars

\* C1: startCalibration() with developer mode off and the link not connected
\* emits exactly one calibrationFailed and changes nothing else: the manager
\* stays idle, currentStep, the results list and the config keep their
\* values, and no timer is started.
C1_RejectedStartChangesNothing ==
    [][ lastOp' = "startRejected" =>
          /\ emitted' = FailedOnce
          /\ ~calibrationRunning'
          /\ ManagerState' = ManagerState ]_vars

C1_Witness ==
    /\ lastOp = "startRejected"
    /\ currentStep # StepNotStarted
    /\ calibrationResults # << >>
    /\ emitted["calibrationFailed"] >= 1

\* C2: once stopCalibration() has cancelled a run, until the next
\* startCalibration() no command is sent, no event is emitted, and
\* currentStep, the results list and the config are not modified.
C2_QuietAfterStop ==
    [][ (run.cancelled /\ run'.cancelled) =>
          /\ sentCount' = sentCount
          /\ simSentCount' = simSentCount
          /\ emitted' = emitted
          /\ currentStep' = currentStep
          /\ calibrationResults' = calibrationResults
          /\ calibratedConfig' = calibratedConfig ]_vars

\* C3: within a run currentStep only moves to its immediate successor, and
\* only from a step whose probe processCalibrationStep issued in this run.
C3_StepsInOrder ==
    [][ (calibrationRunning /\ calibrationRunning' /\ currentStep' # currentStep) =>
          /\ currentStep' = currentStep + 1
          /\ currentStep \in probed' ]_vars

FailureHandled ==
    /\ calibrationRunning
    /\ Len(calibrationResults') = Len(calibrationResults) + 1
    /\ ~calibrationResults'[Len(calibrationResults')].success

\* C4: a failed attempt of a running step is retried on the same step after
\* the retry delay while fewer than 3 attempts have failed; the third
\* failure emits exactly one calibrationFailed naming 3 attempts and ends
\* the run, and no step is started while no run is in progress.
C4_RetryThenAbort ==
    [][ /\ FailureHandled =>
            IF currentRetry + 1 < 3
            THEN /\ currentRetry' = currentRetry + 1
                 /\ stepTimer' = RetryDelay
                 /\ currentStep' = currentStep
                 /\ calibrationRunning'
                 /\ emitted'["calibrationFailed"] = emitted["calibrationFailed"]
            ELSE /\ emitted'["calibrationFailed"] = emitted["calibrationFailed"] + 1
                 /\ lastFailure' = "Step failed after 3 attempts"
                 /\ ~calibrationRunning'
        /\ ~calibrationRunning /\ ~calibrationRunning' =>
            emitted'["calibrationStepChanged"] = emitted["calibrationStepChanged"]
      ]_vars

C4_Witness ==
    /\ lastFailure = "Step failed after 3 attempts"
    /\ currentRetry = 3
    /\ ~calibrationRunning
    /\ lastOp = "processCalibrationStep"

CompletedInRun == emitted["calibrationCompleted"]

FinalizationStep ==
    /\ lastOp' = "processCalibrationStep"
    /\ calibrationRunning
    /\ currentStep = StepFinalization

Metadata(c) == << c.isCalibrated, c.calibrationDate, c.calibrationQuality >>

C8_StopKeepsConfig ==
    [][ /\ lastOp' = "stopCalibration" =>
            /\ emitted' = FailedOnce
            /\ lastFailure' = "Calibration cancelled by user"
            /\ ~calibrationRunning'
            /\ currentConfig' = run.currentConfig
        /\ lastOp' = "stopIgnored" =>
            /\ emitted' = emitted
            /\ lastFailure' = lastFailure
            /\ ManagerState' = ManagerState
      ]_vars

C8_Witness ==
    /\ lastOp = "stopCalibration"
    /\ Len(calibrationResults) >= 2
    /\ calibratedConfig # DefaultConfig
    /\ currentConfig = run.currentConfig

DispatchStep == dispatched' # dispatched

\* What the claims say a drive command (s, t) becomes under the factors of
\* config: speed s * (left + right) / 2, and turn rate the drift correction
\* when driving straight, t * turnAccuracyFactor when turning, else 0.
ExpectedDrive(config, command) ==
    LET s == command.speed
        t == command.turn_rate
    IN  DriveCommand(
            (s * (config.leftMotorSpeedFactor + config.rightMotorSpeedFactor))
                \div (2 * Scale),
            IF t = 0 /\ s # 0 THEN config.straightDriftCorrection
            ELSE IF t # 0 THEN (t * config.turnAccuracyFactor) \div Scale
            ELSE 0)

\* C9: a drive command (s, t) dispatched under a valid calibration is sent
\* with speed s * (leftMotorSpeedFactor + rightMotorSpeedFactor) / 2 and with
\* turn rate straightDriftCorrection if t = 0 and s # 0, t * turnAccuracyFactor
\* if t # 0, and 0 if t = 0 and s = 0.
C9_DriveCompensation ==
    [][ ( /\ DispatchStep
          /\ lastDispatch'.command.type = "drive"
          /\ hasValidCalibration(robotConfig) ) =>
        LET s == lastDispatch'.command.speed
            t == lastDispatch'.command.turn_rate
            sent == lastDispatch'.sent
        IN  /\ sent.type = "drive"
            /\ 2 * Scale * sent.speed =
                   s * (robotConfig.leftMotorSpeedFactor
                        + robotConfig.rightMotorSpeedFactor)
            /\ (t = 0 /\ s # 0) => sent.turn_rate = robotConfig.straightDriftCorrection
            /\ t # 0 => Scale * sent.turn_rate = t * robotConfig.turnAccuracyFactor
            /\ (t = 0 /\ s = 0) => sent.turn_rate = 0
      ]_vars

\* s = 100, t = 0 under factors 1.0 and 0.98 and drift correction 0.3 is
\* sent as speed 99.0, turn rate 0.3.
C9_Witness ==
    /\ hasValidCalibration(robotConfig)
    /\ robotConfig.leftMotorSpeedFactor = 1000
    /\ robotConfig.rightMotorSpeedFactor = 980
    /\ robotConfig.straightDriftCorrection = 300
    /\ lastDispatch.command = DriveCommand(100000, 0)
    /\ lastDispatch.sent = DriveCommand(99000, 300)

\* C10 as stated: dispatch compensates a drive command whenever isCalibrated
\* is true, whatever the other fields, and sends it unmodified when
\* isCalibrated is false.
C10_CompensatesWhenFlagged ==
    [][ (DispatchStep /\ lastDispatch'.command.type = "drive") =>
          lastDispatch'.sent =
              IF robotConfig.isCalibrated
              THEN ExpectedDrive(robotConfig, lastDispatch'.command)
              ELSE lastDispatch'.command ]_vars

\* C10 amended: dispatch compensates a drive command whenever the config has
\* a valid calibration (isCalibrated, a calibrationDate and a
\* calibrationQuality above 0) and sends every other command unmodified.
C10_CompensatesWhenValid ==
    [][ DispatchStep =>
          lastDispatch'.sent =
              IF /\ lastDispatch'.command.type = "drive"
                 /\ robotConfig.isCalibrated
                 /\ robotConfig.calibrationDate # ""
                 /\ robotConfig.calibrationQuality > 0
              THEN ExpectedDrive(robotConfig, lastDispatch'.command)
              ELSE lastDispatch'.command ]_vars

C10_Witness ==
    /\ robotConfig.isCalibrated
    /\ robotConfig.calibrationDate = ""
    /\ robotConfig.rightMotorSpeedFactor = 980
    /\ lastDispatch.command = DriveCommand(100000, 0)
    /\ lastDispatch.sent = DriveCommand(100000, 0)
    /\ lastDispatch.targets # {}

\* C11: while a recording session is active, every dispatch appends exactly
\* one entry to the recording buffer, and the entry holds the command as it
\* was given to dispatch (not the compensated one) with the elapsed time of
\* the recording clock, whatever the calibration and the target.
C11_RecordsOriginal ==
    [][ (DispatchStep /\ isRecording) =>
          currentRecording' =
              Append(currentRecording,
                     RecordedCommand(recordingElapsed,
                                     lastDispatch'.command.type,
                                     lastDispatch'.command)) ]_vars

C11_Witness ==
    /\ isRecording
    /\ recordingElapsed > 0
    /\ currentRecording # << >>
    /\ Back(currentRecording).parameters = lastDispatch.command
    /\ Back(currentRecording).timestamp = recordingElapsed
    /\ lastDispatch.sent # lastDispatch.command
    /\ lastDispatch.targets = {"link"}

\* C14: while recording, an undo followed immediately by a redo restores the
\* buffer, the undo stack and the redo stack to their values before the
\* undo, and a redo followed immediately by an undo does the same.
C14_UndoRedoRoundTrip ==
    [][ /\ (isRecording /\ undoHistory # << >> /\ undoLastAction) =>
              redoLastActionOn(isRecording', History') = History
        /\ (isRecording /\ redoHistory # << >> /\ redoLastAction) =>
              undoLastActionOn(isRecording', History') = History ]_vars

C14_Witness ==
    /\ isRecording
    /\ undoHistory # << >>
    /\ redoHistory # << >>
    /\ currentRecording # << >>

\* C15: immediately after a dispatch made while recording, the redo stack is
\* empty and a redo leaves the buffer unchanged.
C15_RecordClearsRedo ==
    [][ (DispatchStep /\ isRecording) =>
          /\ redoHistory' = << >>
          /\ redoLastActionOn(isRecording', History').currentRecording
                 = currentRecording' ]_vars

C15_Witness ==
    /\ isRecording
    /\ dispatched = MaxDispatch
    /\ Len(currentRecording) = 1
    /\ undoHistory = << << >> >>
    /\ redoHistory = << >>

\* C16: the timestamps of the recording buffer are non-decreasing in
\* sequence order in every reachable state.
C16_TimestampsMonotonic ==
    \A i \in 1..Len(currentRecording) : \A j \in i..Len(currentRecording) :
        currentRecording[i].timestamp <= currentRecording[j].timestamp

\* C17: a recording start empties the buffer, a recording stop leaves the
\* buffer as it was, and while recording is not active no dispatch, undo or
\* redo changes the buffer, the undo stack or the redo stack.
C17_RecordingFrame ==
    [][ /\ (toggleRecording /\ ~isRecording) => currentRecording' = << >>
        /\ (toggleRecording /\ isRecording) =>
              currentRecording' = currentRecording
        /\ (~isRecording /\ (DispatchStep \/ undoLastAction \/ redoLastAction))
              => History' = History ]_vars

C17_Witness ==
    /\ ~isRecording
    /\ currentRecording # << >>
    /\ undoHistory # << >>
    /\ dispatched = MaxDispatch
    /\ Len(currentRecording) < dispatched

\* C13: in every reachable state the undo stack holds at most 20 snapshots
\* and the redo stack holds at most 20 snapshots.
C13_HistoryBounded ==
    /\ Len(undoHistory) <= MAX_HISTORY
    /\ Len(redoHistory) <= MAX_HISTORY

C13_Witness ==
    /\ dispatched > MAX_HISTORY
    /\ Len(undoHistory) = MAX_HISTORY
    /\ Len(currentRecording) > MAX_HISTORY

\* A tick of a playback in progress, and the calls it made.
PlayingTick == PlaybackTick /\ isPlayingBack /\ playbackCommands # << >>

Due(i) == playbackCommands[i + 1].timestamp <= playbackElapsed

\* C12: the command executed for a log entry is the compensation of the
\* entry's original command under the configuration current at the tick that
\* plays it: the documented formula under a valid calibration, the recorded
\* original otherwise.
C12_PlaybackRecompensates ==
    [][ PlayingTick =>
          \A k \in (Len(played) + 1)..Len(played') :
              LET original == playbackCommands[played'[k].index + 1].parameters
              IN  /\ played'[k].call.command = original
                  /\ played'[k].call.sent =
                        IF hasValidCalibration(robotConfig)
                           /\ original.type = "drive"
                        THEN ExpectedDrive(robotConfig, original)
                        ELSE original ]_vars

\* one log entry command played under two calibrations and under none
C12_Witness ==
    \E i, j, k \in DOMAIN played :
        /\ played[i].call.command = played[j].call.command
        /\ played[i].call.command = played[k].call.command
        /\ played[i].call.sent # played[j].call.sent
        /\ played[i].call.sent # played[i].call.command
        /\ played[j].call.sent # played[j].call.command
        /\ played[k].call.sent = played[k].call.command

\* C18: within one playback tick every command from the cursor onward whose
\* timestamp is <= the tick's elapsed time is dispatched, in log order.
C18_AllDuePlayedInTick ==
    [][ PlayingTick =>
          /\ \A i \in playbackIndex..(Len(playbackCommands) - 1) :
                 Due(i) => i < playbackIndex'
          /\ \A k \in (Len(played) + 1)..Len(played') :
                 played'[k].index = playbackIndex + (k - Len(played)) - 1 ]_vars

\* C19: the commands dispatched by the ticks of a playback are the entries of
\* the loaded log from the first up to the cursor, each once and in log
\* order (the whole log when the playback has completed), and none is
\* dispatched at an elapsed time below its timestamp.
C19_PlaysLogExactly ==
    playbackCommands # << >> =>
        /\ Len(played) = playbackIndex
        /\ \A k \in DOMAIN played :
               /\ played[k].index = k - 1
               /\ played[k].call.command = playbackCommands[k].parameters
               /\ playbackCommands[k].timestamp <= played[k].elapsed
        /\ (~isPlayingBack => playbackIndex = Len(playbackCommands))

C19_Witness ==
    /\ ~isPlayingBack
    /\ playbackCommands = [i \in 1..Len(ExampleRun) |-> fromJson(ExampleRun[i])]
    /\ Len(played) = Len(ExampleRun)
    /\ played[2].elapsed = played[3].elapsed
    /\ played[1].elapsed < played[2].elapsed
    /\ played[3].elapsed < played[4].elapsed

\* C20: a started playback eventually ends; when it has ended the cursor is
\* at the end of the log, the poll timer is stopped and completion has been
\* reported exactly once (and no index error), so playbackRun accepts again.
C20_PlaybackTerminates ==
    /\ isPlayingBack ~> ~isPlayingBack
    /\ [](  (~isPlayingBack /\ playbackCommands # << >>) =>
              /\ playbackIndex = Len(playbackCommands)
              /\ ~playbackTimer
              /\ playbackReports = [completed |-> 1, indexError |-> 0] )

\* a second playback accepted and completed after the first
C20_Witness ==
    /\ playbacks = MaxPlaybacks
    /\ ~isPlayingBack
    /\ playbackCommands # << >>
    /\ playbackReports.completed = 1
    /\ played # << >>

\* C21: a playbackRun request made while a playback is in progress is answered
\* with the warning "Already playing back a run" and changes nothing of the
\* playback in progress: the loaded command list, the cursor, the time since
\* the start, isPlayingBack, the timer and the calls already played are the
\* same after the request, so the requested run is neither loaded nor queued.
C21_RejectedWhilePlaying ==
    [][(playbackRun /\ isPlayingBack) =>
          /\ lastStatus' = "Already playing back a run"
          /\ UNCHANGED << playbackCommands, playbackIndex, playbackElapsed,
                          isPlayingBack, playbackTimer, played, playbacks >>]_vars

C21_Witness ==
    /\ isPlayingBack
    /\ lastStatus = "Already playing back a run"
    /\ playbackIndex > 0
    /\ playbackIndex < Len(playbackCommands)

\* C28: startCalibration() called while a run is in progress changes nothing
\* of the manager: the step, the retry counter, the results, the config under
\* construction, both timers and the pending single shots are the same, no
\* signal is emitted, and the run is still in progress.
C28_StartWhileRunningIsNoOp ==
    [][(calibrationRunning /\ lastOp' = "startIgnored" /\ starts' = starts
            /\ UNCHANGED << configured, isDeveloperMode, linkConnected,
                            linkChanges, run >>) =>
          /\ calibrationRunning'
          /\ UNCHANGED << currentStep, currentRetry, calibrationResults,
                          calibratedConfig, stepTimer, timeoutTimer,
                          singleShots, currentConfig, emitted, lastFailure,
                          sentCount, lastSent, simSentCount, probed >>]_vars

C28_Witness ==
    /\ lastOp = "startIgnored"
    /\ calibrationRunning
    /\ currentStep = StepTurnAccuracy
    /\ currentRetry = 1
    /\ calibrationResults # << >>

\* C29: the retry counter of the current step never exceeds maxRetries (3);
\* it is 0 after every step that completes successfully and after every
\* startCalibration() that starts a new run.
C29_RetryBoundedAndReset ==
    /\ [](currentRetry <= maxRetries)
    /\ [][(/\ Len(calibrationResults') = Len(calibrationResults) + 1
           /\ calibrationResults'[Len(calibrationResults')].success)
              => currentRetry' = 0]_vars
    /\ [][lastOp' = "startCalibration" => currentRetry' = 0]_vars

C29_Witness ==
    /\ calibrationRunning
    /\ currentRetry = 0
    /\ Len(calibrationResults) >= 2
    /\ ~calibrationResults[Len(calibrationResults) - 1].success
    /\ calibrationResults[Len(calibrationResults)].success

C23_ArmAnglesBounded ==
    /\ 0 - 90000 <= simulator.arm1Angle /\ simulator.arm1Angle <= 90000
    /\ 0 - 90000 <= simulator.arm2Angle /\ simulator.arm2Angle <= 90000

\* an arm held at its end stop while its motor still pushes
C23_Witness ==
    /\ simulator.arm1Angle = 90000
    /\ simulator.actualArm1Spd > 100
    /\ MovedArm(simulator.arm1Angle, simulator.actualArm1Spd) > 90000

\* C24: on every tick the acceleration of each channel (speed, turn, arm1,
\* arm2) changes by at most maxAccel * 8 * dt of that channel.
C24_JerkLimited ==
    [][simTicks' # simTicks =>
          /\ Abs(simulator'.speedAccel - simulator.speedAccel)
                 <= FMul(maxDriveAccel * 8, dt)
          /\ Abs(simulator'.turnAccel - simulator.turnAccel)
                 <= FMul(maxTurnAccel * 8, dt)
          /\ Abs(simulator'.arm1Accel - simulator.arm1Accel)
                 <= FMul(maxArmAccel * 8, dt)
          /\ Abs(simulator'.arm2Accel - simulator.arm2Accel)
                 <= FMul(maxArmAccel * 8, dt)]_vars

\* One tick takes the speed from before to after without moving it away
\* from the target, without passing the target and without giving it the
\* sign opposite to the one it approaches the target with.
Approaches(target, before, after) ==
    /\ Abs(target - after) <= Abs(target - before)
    /\ before <= target => after <= target
    /\ before >= target => after >= target
    /\ target >= 0 /\ before >= 0 => after >= 0
    /\ target <= 0 /\ before <= 0 => after <= 0

\* C25: a target given at rest and held, and the target 0 of a stop command
\* given afterwards, are approached monotonically by the actual speed of
\* every channel on every tick.
C25_MonotoneApproach ==
    [][simTicks' # simTicks =>
          /\ Approaches(simulator.targetSpd, simulator.actualSpd,
                        simulator'.actualSpd)
          /\ Approaches(simulator.targetTurn, simulator.actualTurn,
                        simulator'.actualTurn)
          /\ Approaches(simulator.targetArm1Spd, simulator.actualArm1Spd,
                        simulator'.actualArm1Spd)
          /\ Approaches(simulator.targetArm2Spd, simulator.actualArm2Spd,
                        simulator'.actualArm2Spd)]_vars

\* the values the clear operation gives the calibration-derived fields
Cleared(c) ==
    /\ c.isCalibrated = FALSE
    /\ c.calibrationDate = ""
    /\ c.calibrationQuality = 0
    /\ c.leftMotorSpeedFactor = 1000
    /\ c.rightMotorSpeedFactor = 1000
    /\ c.turnAccuracyFactor = 1000
    /\ c.leftMotorDelay = 0 /\ c.rightMotorDelay = 0
    /\ c.arm1MotorDelay = 0 /\ c.arm2MotorDelay = 0
    /\ c.gyroscopeDrift = 0 /\ c.gyroscopeDelay = 0
    /\ c.straightDriftCorrection = 0
    /\ c.motorResponseTime = 0

SamePhysical(c, e) ==
    /\ c.axleTrack = e.axleTrack
    /\ c.wheelDiameter = e.wheelDiameter
    /\ c.leftMotorPort = e.leftMotorPort
    /\ c.rightMotorPort = e.rightMotorPort
    /\ c.arm1MotorPort = e.arm1MotorPort
    /\ c.arm2MotorPort = e.arm2MotorPort
    /\ c.straightSpeed = e.straightSpeed
    /\ c.straightAcceleration = e.straightAcceleration
    /\ c.turnRate = e.turnRate
    /\ c.turnAcceleration = e.turnAcceleration

\* C27: the clear operation sets every calibration-derived field of the
\* dialog's config to its default (factors 1.0, delays, drift and offsets 0,
\* quality 0, no date, isCalibrated false) and keeps every physical
\* parameter; a command dispatched under a config in that cleared state is
\* sent unmodified.
C27_ClearResetsCalibrationOnly ==
    /\ [][clearCalibrationData =>
             /\ Cleared(currentConfig')
             /\ SamePhysical(currentConfig', currentConfig)]_vars
    /\ [][(DispatchStep /\ Cleared(robotConfig)) =>
             lastDispatch'.sent = lastDispatch'.command]_vars

\* the calibrated robot after Clear Data and OK: its own geometry, no
\* calibration, and a drive command sent as given
C27_Witness ==
    /\ Cleared(robotConfig)
    /\ SamePhysical(robotConfig, CalibratedRobot)
    /\ lastDispatch.command = DriveCommand(100000, 0)
    /\ lastDispatch.sent = DriveCommand(100000, 0)
    /\ lastDispatch.targets # {}

\* C30: every drive command produced by a key event while Space is held
\* has speed 0 and turn rate 0, whatever other keys are held.
C30_SpaceStopsDrive ==
    [][(/\ DispatchStep
        /\ "SPACE" \in pressedKeys'
        /\ lastDispatch'.command.type = "drive") =>
          /\ lastDispatch'.command.speed = 0
          /\ lastDispatch'.command.turn_rate = 0]_vars

\* C26: a recording written to a run file and loaded back has the same
\* number of entries in the same order, and each loaded entry equals the
\* recorded one in timestamp, command type and parameters, for parameters
\* that are strings, numbers (int or double) or booleans.
C26_SaveLoadRoundTrip ==
    [][reloadSavedRun =>
          /\ Len(playbackCommands') = Len(currentRecording)
          /\ \A i \in 1..Len(currentRecording) :
                 CommandEqual(playbackCommands'[i], currentRecording[i])]_vars

\* a log of a key command at 0 ms and a flagged command at 1 ms, reloaded:
\* the int speed is read back as the double of the same value
C26_Witness ==
    /\ Len(playbackCommands) = 2
    /\ lastStatus = "Starting playback"
    /\ currentRecording = << >>
    /\ playbackCommands[1].timestamp = 0
    /\ playbackCommands[1].commandType = "drive"
    /\ playbackCommands[1].parameters.speed = QVariant("Double", 200000)
    /\ playbackCommands[1].parameters.turn_rate = QVariant("Double", 0 - 100000)
    /\ playbackCommands[2].timestamp = 1
    /\ playbackCommands[2].commandType = "calibrate"
    /\ playbackCommands[2].parameters.enabled = QVariant("Bool", TRUE)

\* C31: every command a calibration step sends to the robot is sent by
\* MainWindow::executeCommand: at the step that sends it, the dispatcher's
\* last dispatch is that command, sent to the hardware link.
C31_ProbesThroughDispatcher ==
    [][sentCount' > sentCount =>
          /\ lastDispatch'.command = lastSent'
          /\ "link" \in lastDispatch'.targets]_vars

\* C32: a dispatch sends its command to the simulator and to nothing else
\* when developer mode is on, whether or not the link is connected; to the
\* hardware link and to nothing else when developer mode is off and the link
\* is connected; and to nothing when neither holds.  The simulator's state
\* changes in the first case only.
C32_ExactlyTheActiveTarget ==
    [][DispatchStep =>
          /\ mwDeveloperMode =>
                /\ lastDispatch'.targets = {"simulator"}
                /\ simulator' = updateCommand(simulator, lastDispatch'.sent)
          /\ (~mwDeveloperMode /\ isConnected) =>
                /\ lastDispatch'.targets = {"link"}
                /\ simulator' = simulator
          /\ (~mwDeveloperMode /\ ~isConnected) =>
                /\ lastDispatch'.targets = {}
                /\ simulator' = simulator]_vars

\* a drive command dispatched in developer mode with the link connected
C32_Witness ==
    /\ dispatched > 0
    /\ mwDeveloperMode
    /\ isConnected
    /\ lastDispatch.command.type = "drive"
    /\ lastDispatch.targets = {"simulator"}
    /\ simulator.targetSpd # 0

\* C33: while recording, an undo made immediately after a command was recorded
\* gives the buffer as it was before that command was appended, whatever the
\* buffer and the undo and redo stacks were, the undo stack at its cap of 20
\* snapshots included.
C33_RecordThenUndo ==
    [][(DispatchStep /\ isRecording) =>
          undoLastActionOn(isRecording', History').currentRecording
              = currentRecording]_vars

\* a command recorded with the undo stack already full: the oldest snapshot
\* has been evicted and the newest is the buffer before the command
C33_Witness ==
    /\ isRecording
    /\ dispatched > MAX_HISTORY
    /\ Len(undoHistory) = MAX_HISTORY
    /\ redoHistory = << >>
    /\ undoHistory[1] # << >>
    /\ Back(undoHistory) = SubSeq(currentRecording, 1, Len(currentRecording) - 1)

\* C34: from the emission of calibrationCompleted until the next accepted
\* startCalibration(), neither the watchdog nor the step timer is pending, no
\* calibrationStepCompleted or calibrationFailed is emitted, and the results
\* list and the retry counter keep their values.
C34_QuietAfterCompleted ==
    [][(CompletedInRun >= 1 /\ CompletedInRun' >= 1) =>
          /\ timeoutTimer = NoTimer
          /\ stepTimer = NoTimer
          /\ emitted'["calibrationStepCompleted"] = emitted["calibrationStepCompleted"]
          /\ emitted'["calibrationFailed"] = emitted["calibrationFailed"]
          /\ calibrationResults' = calibrationResults
          /\ currentRetry' = currentRetry]_vars

\* C35: immediately after a recording is started the buffer is empty, and an
\* undo or a redo made then leaves it empty: nothing recorded in an earlier
\* session comes back.
C35_HistoryOfSessionOnly ==
    [][(toggleRecording /\ ~isRecording) =>
          /\ currentRecording' = << >>
          /\ undoLastActionOn(isRecording', History').currentRecording = << >>
          /\ redoLastActionOn(isRecording', History').currentRecording = << >>]_vars

\* C36: in real-robot mode a probe drive command with a non-zero speed or turn
\* rate is eventually followed by a stop command, drive(0, 0), sent the same
\* way, whatever happens to the run in between.
C36_ProbeEventuallyStopped ==
    (/\ ~isDeveloperMode
     /\ lastSent.type = "drive"
     /\ (lastSent.speed # 0 \/ lastSent.turn_rate # 0))
        ~> (lastSent = DriveCommand(0, 0))

\* C37: in developer mode a calibration run makes no call of
\* robotSimulator->updateCommand and none of bleController->sendCommand, at
\* any step; the simulator (changed by updateCommand and by its own timer
\* only) is as it was when the dialog was opened.
C37_SimulatedRunSendsNothing ==
    isDeveloperMode =>
        /\ simSentCount = 0
        /\ sentCount = 0
        /\ lastSent = NoCommand
        /\ simulator = NewSimulator(MinimumWidth, MinimumHeight)

\* a simulated run that went through its six steps and completed
C37_Witness ==
    /\ isDeveloperMode
    /\ ~calibrationRunning
    /\ CompletedInRun = 1
    /\ probed = StepMotorResponseTime..StepFinalization
    /\ Len(calibrationResults) = 6
    /\ simSentCount = 0

\* C38: while a playback is in progress its timer is running and the cursor
\* is inside the loaded log, 0 <= playbackIndex < Len(playbackCommands), so
\* the tick's bounds test never fails: "Playback stopped due to index error"
\* is never logged, whatever runs are loaded, started, rejected and completed.
C38_CursorInsideLog ==
    /\ isPlayingBack =>
          /\ playbackTimer
          /\ 0 <= playbackIndex
          /\ playbackIndex < Len(playbackCommands)
    /\ playbackReports.indexError = 0
    /\ lastStatus # "Playback stopped due to index error"

\* the second playback under way, after a tick that played part of its log
C38_Witness ==
    /\ playbacks = MaxPlaybacks
    /\ isPlayingBack
    /\ played # << >>
    /\ playbackIndex > 0
    /\ playbackIndex < Len(playbackCommands)

\* An attempt fails: the controller reports an error, no service object can
\* be created, or the service lacks the command characteristic.
AttemptFails ==
    /\ bleEvents' # bleEvents
    /\ lastBleOp' \in {"onControllerError", "noService", "noCharacteristic"}

\* C39: the link starts Disconnected, and a connection attempt that fails
\* while the state is Connecting puts the state back to Disconnected, so that
\* the next connectToHub() starts an attempt.
C39_FailedAttemptDisconnects ==
    /\ connectionState = "Disconnected"
    /\ [][(AttemptFails /\ connectionState = "Connecting") =>
             connectionState' = "Disconnected"]_vars

====
